---- MODULE Spec2Model ----
(***************************************************************************)
(* A model of tn-mod-manager's reconciliation engine (class ModManager):   *)
(* one run of the program lists ./mods, prunes the files no manifest entry *)
(* names, and then resolves, cleans and installs each manifest entry.      *)
(*                                                                         *)
(* File names and mod names are sequences of one-character strings, so     *)
(* that toLowerCase, replace(/\s+/g,'-'), startsWith and includes are      *)
(* computed as the code computes them.  File contents are sequences of     *)
(* bytes.  The registry (Modrinth) and the web are state: what a project   *)
(* lists and what a URL answers.                                           *)
(***************************************************************************)
EXTENDS Integers, Sequences, FiniteSets, TLC

VARIABLES
  config,       \* this.config: [prune, mods]
  versions,     \* registry: project id -> version list, or a failed request
  hits,         \* registry: search query -> hits, or a failed request
  web,          \* url -> what fetch(url) answers
  locked,       \* files Deno.remove refuses to delete
  fs,           \* ./mods: file name -> bytes (the domain is what exists)
  phase,        \* where the run is: idle, entries, completed, failed
  pass,         \* number of the run (1 is the first)
  idx,          \* entries of config.mods already processed in this run
  currentMods,  \* syncMods' snapshot of the directory
  pruned,       \* files the prune loop of this run deleted
  report,       \* per entry of this run: what processModDownload did
  fsStart,      \* fs when this run listed the directory
  fsAfterPrune, \* fs when the prune loop of this run ended
  fsBefore,     \* fs when the last processModDownload of this run began
  prevReport,   \* report of the previous run
  versionsSeen, \* the registry as it was when this run began
  changed,      \* the registry this run began with differs from the previous run's
  exitCode,     \* Deno.exit status of the run (0 while none)
  vfile,        \* validator harness: the file handed to validateJarFile
  vresult,      \* validator harness: what validateJarFile answered
  upd,          \* main(): where updater.check() stands, the files next to the
                \* executable, and what was fetched and logged
  cfg           \* init(): where it stands before syncMods, ./tn.mods.json, the
                \* existence of ./mods, externalSrc and what it answered

vars == << config, versions, hits, web, locked, fs, phase, pass, idx,
           currentMods, pruned, report, fsStart, fsAfterPrune, fsBefore,
           prevReport, versionsSeen, changed, exitCode, vfile, vresult, upd,
           cfg >>

\* All but upd: what AutoUpdater never touches.
engineVars == << config, versions, hits, web, locked, fs, phase, pass, idx,
                 currentMods, pruned, report, fsStart, fsAfterPrune, fsBefore,
                 prevReport, versionsSeen, changed, exitCode, vfile, vresult, cfg >>

\* What init() leaves alone before syncMods: all but config, exitCode and cfg.
loadVars == << versions, hits, web, locked, fs, phase, pass, idx, currentMods,
               pruned, report, fsStart, fsAfterPrune, fsBefore, prevReport,
               versionsSeen, changed, vfile, vresult, upd >>

----------------------------------------------------------------------------
(* Bounds of the model.                                                    *)

MaxMods == 2
MaxInitFiles == 2
MaxPasses == 2
MaxJarLen == 5

----------------------------------------------------------------------------
(* Strings.                                                                *)

\* String.prototype.toLowerCase, per character.
LowerChar(c) ==
  CASE c = "S" -> "s" [] c = "O" -> "o" [] c = "E" -> "e" [] c = "X" -> "x"
    [] c = "J" -> "j" [] c = "K" -> "k" [] c = "C" -> "c" [] c = "U" -> "u"
    [] c = "Z" -> "z" [] c = "A" -> "a" [] c = "R" -> "r" [] c = "V" -> "v"
    [] OTHER -> c

toLowerCase(s) == [i \in 1..Len(s) |-> LowerChar(s[i])]

IsSpace(c) == c \in {" ", "\t"}

\* s.replace(/\s+/g, '-'): every maximal run of whitespace becomes one hyphen.
RECURSIVE ReplaceWs(_)
ReplaceWs(s) ==
  IF s = << >> THEN << >>
  ELSE IF IsSpace(Head(s))
       THEN IF Len(s) > 1 /\ IsSpace(s[2])
            THEN ReplaceWs(Tail(s))
            ELSE << "-" >> \o ReplaceWs(Tail(s))
       ELSE << Head(s) >> \o ReplaceWs(Tail(s))

StartsWith(s, p) == Len(p) <= Len(s) /\ SubSeq(s, 1, Len(p)) = p

EndsWith(s, p) ==
  Len(p) <= Len(s) /\ SubSeq(s, Len(s) - Len(p) + 1, Len(s)) = p

Includes(s, p) ==
  \E i \in 0..(Len(s) - Len(p)) : SubSeq(s, i + 1, i + Len(p)) = p

DotJar == << ".", "j", "a", "r" >>

\* mod.name.toLowerCase().replace(/\s+/g, '-')
NormalizedName(name) == ReplaceWs(toLowerCase(name))

\* fileName.replace(/\.jar$/i, '').toLowerCase()
extractModBaseName(fileName) ==
  IF EndsWith(toLowerCase(fileName), DotJar)
  THEN toLowerCase(SubSeq(fileName, 1, Len(fileName) - 4))
  ELSE toLowerCase(fileName)

\* A file name always synthesized, whatever fileName the entry gives.
generateFileNameSynthesized(mod) ==
  toLowerCase(ReplaceWs(mod.name)) \o << "-" >>
  \o (IF mod.version # << >> THEN mod.version
      ELSE << "l", "a", "t", "e", "s", "t" >>)
  \o DotJar

\* generateFileName: `${name.replace(/\s+/g,'-').toLowerCase()}-${version || 'latest'}.jar`
generateFileName(mod) ==
  IF mod.fileName # << >> THEN mod.fileName
  ELSE toLowerCase(ReplaceWs(mod.name)) \o << "-" >>
       \o (IF mod.version # << >> THEN mod.version
           ELSE << "l", "a", "t", "e", "s", "t" >>)
       \o DotJar

----------------------------------------------------------------------------
(* The filesystem: a function from the names that exist to their bytes.    *)

Exists(d, f) == f \in DOMAIN d

Size(d, f) == Len(d[f])

RemoveFile(d, f) == [g \in (DOMAIN d) \ {f} |-> d[g]]

RemoveFiles(d, S) == [g \in (DOMAIN d) \ S |-> d[g]]

WriteFile(d, f, bytes) == [g \in (DOMAIN d) \cup {f} |-> IF g = f THEN bytes ELSE d[g]]

\* Deno.remove(path) succeeds on a file that exists and is not refused.
CanRemove(d, f) == Exists(d, f) /\ f \notin locked

----------------------------------------------------------------------------
(* Artifact validator.                                                     *)

\* new Uint8Array(4) after file.read(buffer): the first bytes of the file,
\* the rest of the buffer still zero.
ReadBuffer(bytes) == [i \in 1..4 |-> IF i <= Len(bytes) THEN bytes[i] ELSE 0]

\* A validator that compares only three bytes of the signature: what
\* validateJarFile would be with its last comparison dropped.
ValidateThreeBytes(d, f) ==
  IF ~Exists(d, f) THEN FALSE
  ELSE IF Size(d, f) = 0 THEN FALSE
  ELSE LET buffer == ReadBuffer(d[f])
       IN  ~(buffer[1] # 80 \/ buffer[2] # 75 \/ buffer[3] # 3)

\* validateJarFile(filePath): TRUE when it returns, FALSE when it throws
\* 'Archivo JAR invalido'.
validateJarFile(d, f) ==
  IF ~Exists(d, f) THEN FALSE                   \* Deno.stat throws
  ELSE IF Size(d, f) = 0 THEN FALSE             \* 'Archivo vacio'
  ELSE LET buffer == ReadBuffer(d[f])
       IN  ~(buffer[1] # 80 \/ buffer[2] # 75 \/ buffer[3] # 3 \/ buffer[4] # 4)

----------------------------------------------------------------------------
(* Registry resolver.  Each function of the code is a chain of operators,  *)
(* one per step, each handing what it computed to the next.                *)

\* Array.prototype.find over the indices S of the elements that satisfy the
\* predicate: the first of them, 0 if there is none.
FirstIndex(S) ==
  IF S = {} THEN 0 ELSE CHOOSE i \in S : \A j \in S : i <= j

\* A request that failed, or answered something that is no list.
NoAnswer == [ok |-> FALSE, list |-> << >>]

\* fetch of /v2/search?query=<modName>, then response.json().hits
SearchAnswer(modName) == IF modName \in DOMAIN hits THEN hits[modName] ELSE NoAnswer

\* fetch of /v2/project/<projectId>/version, then response.json()
VersionsAnswer(projectId) ==
  IF projectId \in DOMAIN versions THEN versions[projectId] ELSE NoAnswer

\* hit.title.toLowerCase() === q || hit.slug.toLowerCase() === q
ExactHit(h, q) == toLowerCase(h.title) = q \/ toLowerCase(h.slug) = q

\* hit.title.toLowerCase().includes(q) || q.includes(hit.title.toLowerCase())
SimilarHit(h, q) ==
  Includes(toLowerCase(h.title), q) \/ Includes(q, toLowerCase(h.title))

\* A choice that takes whichever of the two matches comes first in the list.
BestMatchEarliest(list, e, s) ==
  IF e # 0 /\ (s = 0 \/ e <= s) THEN list[e]
  ELSE IF s # 0 THEN list[s]
  ELSE list[1]

\* bestMatch of searchModrinthProject, e and s the two find results.
BestMatch(list, e, s) ==
  IF e # 0 THEN list[e] ELSE IF s # 0 THEN list[s] ELSE list[1]

SearchIn(res, q) ==
  IF ~res.ok \/ Len(res.list) = 0
  THEN [ok |-> FALSE, projectId |-> ""]
  ELSE [ok |-> TRUE,
        projectId |-> BestMatch(res.list,
                                FirstIndex({i \in 1..Len(res.list) : ExactHit(res.list[i], q)}),
                                FirstIndex({i \in 1..Len(res.list) : SimilarHit(res.list[i], q)})).project_id]

\* searchModrinthProject(modName): [ok, projectId].
searchModrinthProject(modName) == SearchIn(SearchAnswer(modName), toLowerCase(modName))

\* v.version_number.replace(/^v/, '')
StripV(label) == IF label # << >> /\ Head(label) = "v" THEN Tail(label) ELSE label

\* A filter that looks at the game version only.
CompatibleGameOnly(v) == config.gameVersion \in v.game_versions

\* v.game_versions.includes(gameVersion) && v.loaders.includes(modLoader)
Compatible(v) ==
  config.gameVersion \in v.game_versions /\ config.modLoader \in v.loaders

\* The first find of the pinned branch.
ExactVersion(v, wanted) == Compatible(v) /\ v.version_number = wanted

\* The second find of the pinned branch.
FlexibleVersion(v, wanted) ==
  Compatible(v) /\ (v.version_number = << "v" >> \o wanted
                    \/ StripV(v.version_number) = wanted)

PinnedVersion(list, wanted, e) ==
  IF e # 0 THEN e ELSE FirstIndex({i \in 1..Len(list) : FlexibleVersion(list[i], wanted)})

\* A selection that takes the first compatible record, pinned or not.
SelectFirstCompatible(list, wanted) ==
  FirstIndex({i \in 1..Len(list) : Compatible(list[i])})

\* The version record getModrinthDownloadUrl selects: its index, 0 if none.
SelectVersion(list, wanted) ==
  IF wanted # << >>
  THEN PinnedVersion(list, wanted, FirstIndex({i \in 1..Len(list) : ExactVersion(list[i], wanted)}))
  ELSE FirstIndex({i \in 1..Len(list) : Compatible(list[i])})

\* What a failed resolution leaves: the error thrown to processModDownload.
Failed(projectId, searched) ==
  [ok |-> FALSE, projectId |-> projectId, searched |-> searched, url |-> "",
   version |-> << >>, fileName |-> << >>]

\* A result built without looking whether a record was found or has a file.
FromRecordUnchecked(projectId, searched, list, i) ==
  IF i = 0 \/ Len(list[i].files) = 0
  THEN [ok |-> TRUE, projectId |-> projectId, searched |-> searched, url |-> "",
        version |-> << >>, fileName |-> << >>]
  ELSE [ok |-> TRUE, projectId |-> projectId, searched |-> searched,
        url |-> list[i].files[1].url,
        version |-> list[i].version_number,
        fileName |-> list[i].files[1].filename]

\* compatibleVersion.files[0], read for its url and filename (a TypeError
\* when the record has no file).
FromRecord(projectId, searched, list, i) ==
  IF i = 0 THEN Failed(projectId, searched)
  ELSE IF Len(list[i].files) = 0 THEN Failed(projectId, searched)
  ELSE [ok |-> TRUE, projectId |-> projectId, searched |-> searched,
        url |-> list[i].files[1].url,
        version |-> list[i].version_number,
        fileName |-> list[i].files[1].filename]

FromVersions(mod, projectId, searched, res) ==
  IF ~res.ok THEN Failed(projectId, searched)
  ELSE FromRecord(projectId, searched, res.list, SelectVersion(res.list, mod.version))

FromProject(mod, found, searched) ==
  IF ~found.ok THEN Failed("", searched)
  ELSE FromVersions(mod, found.projectId, searched, VersionsAnswer(found.projectId))

\* A resolver that searches by name whether or not the entry names a project.
getModrinthDownloadUrlBySearch(mod) ==
  FromProject(mod, searchModrinthProject(mod.name), TRUE)

\* getModrinthDownloadUrl(mod): [ok, projectId, searched, url, version, fileName].
getModrinthDownloadUrl(mod) ==
  IF mod.projectId = ""
  THEN FromProject(mod, searchModrinthProject(mod.name), TRUE)
  ELSE FromProject(mod, [ok |-> TRUE, projectId |-> mod.projectId], FALSE)

\* A resolver that trusts what is installed: when the snapshot holds a file
\* of this mod it takes that file for the target and asks the registry
\* nothing.  Uses the snapshot of the run in progress.
ResolveEntryOnce(mod) ==
  IF \E f \in currentMods : StartsWith(extractModBaseName(f), NormalizedName(mod.name))
  THEN [ok |-> TRUE, projectId |-> mod.projectId, searched |-> FALSE, url |-> "",
        version |-> << >>,
        fileName |-> CHOOSE f \in currentMods :
                        StartsWith(extractModBaseName(f), NormalizedName(mod.name))]
  ELSE IF mod.source = "modrinth" THEN getModrinthDownloadUrl(mod)
  ELSE IF mod.downloadUrl = "" THEN Failed("", FALSE)
  ELSE [ok |-> TRUE, projectId |-> "", searched |-> FALSE, url |-> mod.downloadUrl,
        version |-> mod.version, fileName |-> generateFileName(mod)]

\* A resolution that takes a curseforge entry for a generic URL entry.
ResolveEntryGeneric(mod) ==
  IF mod.source = "modrinth" THEN getModrinthDownloadUrl(mod)
  ELSE IF mod.downloadUrl = "" /\ mod.source = "url" THEN Failed("", FALSE)
  ELSE [ok |-> TRUE, projectId |-> "", searched |-> FALSE,
        url |-> mod.downloadUrl,
        version |-> mod.version,
        fileName |-> generateFileName(mod)]

\* Step 1 of processModDownload: the target of an entry, by its source.
ResolveEntry(mod) ==
  IF mod.source = "modrinth" THEN getModrinthDownloadUrl(mod)
  ELSE IF mod.source = "curseforge" THEN Failed("", FALSE)  \* getCurseForgeDownloadUrl throws
  ELSE IF mod.downloadUrl = "" /\ mod.source = "url" THEN Failed("", FALSE)
  ELSE [ok |-> TRUE, projectId |-> "", searched |-> FALSE,
        url |-> mod.downloadUrl,
        version |-> mod.version,
        fileName |-> generateFileName(mod)]

----------------------------------------------------------------------------
(* Download.                                                               *)

\* Bytes written from offset 0 into a file opened with {create, write}: no
\* truncation, what lay beyond the new bytes stays.
Overlay(old, bytes) ==
  IF Len(old) > Len(bytes)
  THEN bytes \o SubSeq(old, Len(bytes) + 1, Len(old))
  ELSE bytes

OldBytes(d, f) == IF Exists(d, f) THEN d[f] ELSE << >>

\* fetch(url)
Fetch(url) == IF url \in DOMAIN web THEN web[url] ELSE [kind |-> "net", body |-> << >>]

\* downloadFile after fetch answered r.  r.kind is
\*   "net"  fetch threw;           "http" response.ok is false;
\*   "nobody" response.body is null (the file is already opened, so created);
\*   "cut"  the stream breaks after r.body was written;
\*   "ok"   r.body is written whole.
Stream(d, r, f) ==
  IF r.kind \in {"net", "http"} THEN [ok |-> FALSE, fs |-> d]
  ELSE IF r.kind = "nobody" THEN [ok |-> FALSE, fs |-> WriteFile(d, f, OldBytes(d, f))]
  ELSE [ok |-> r.kind = "ok", fs |-> WriteFile(d, f, Overlay(OldBytes(d, f), r.body))]

\* downloadFile(url, filePath): [ok, fs].
downloadFile(d, url, f) == Stream(d, Fetch(url), f)

----------------------------------------------------------------------------
(* Reconciliation engine.                                                  *)

\* What the directory holds under a name that is no regular file (a
\* subdirectory): no byte sequence.
DirEntry == << -1 >>

\* entry.isFile
IsFile(d, f) == d[f] # DirEntry

\* A listing of every entry of the directory, of whatever kind and name.
ListEverything(d) == DOMAIN d

\* getCurrentMods: the names of the regular files of ./mods that end in
\* '.jar'.
getCurrentMods(d) == {f \in DOMAIN d : IsFile(d, f) /\ EndsWith(f, DotJar)}

\* The prune loop's test: no entry's normalized name is contained in the
\* file's base name.
IsOrphan(f, mods) ==
  ~\E i \in 1..Len(mods) : Includes(extractModBaseName(f), NormalizedName(mods[i].name))

\* A prune test that takes an absent flag for false.
PruneWhenTrue == config.prune = "true"

\* config.prune !== false
PruneActive == config.prune # "false"

\* The files the prune loop is to delete.
Orphans(snapshot) ==
  IF PruneActive THEN {f \in snapshot : IsOrphan(f, config.mods)} ELSE {}

\* A stale-variant search that only runs when pruning is on.
DuplicatesWhenPruning(mod, snapshot, expectedFileName) ==
  IF config.prune = "false" THEN {}
  ELSE {current \in snapshot :
          StartsWith(extractModBaseName(current), NormalizedName(mod.name))
          /\ current # expectedFileName}

\* Step 2 of processModDownload: the snapshot's variants of this mod that are
\* not the expected file.
Duplicates(mod, snapshot, expectedFileName) ==
  {current \in snapshot :
      StartsWith(extractModBaseName(current), NormalizedName(mod.name))
      /\ current # expectedFileName}

\* The duplicates whose Deno.remove succeeds; the others are logged.
Removable(d, duplicates) == {f \in duplicates : CanRemove(d, f)}

\* What processModDownload did for one entry: the line it logged last
\* ("keep": Verificado, "install": Instalado, "error": Error procesando),
\* the step that threw, and what was done on the way: the target it
\* resolved, whether the registry was searched (searched) and which
\* project's version list was requested (projectId, "" when none was).
Rep(outcome, step, info, duplicates, removed, downloaded, validated) ==
  [outcome |-> outcome, step |-> step, expected |-> info.fileName, url |-> info.url,
   version |-> info.version, projectId |-> info.projectId,
   searched |-> info.searched, duplicates |-> duplicates, removed |-> removed,
   downloaded |-> downloaded, validated |-> validated]

\* Lines 299-305: the download has run; validate what it wrote.
Validated(info, duplicates, removed, dl) ==
  IF ~dl.ok
  THEN [fs |-> dl.fs,
        rep |-> Rep("error", "download", info, duplicates, removed, TRUE, FALSE)]
  ELSE IF ~validateJarFile(dl.fs, info.fileName)
  THEN [fs |-> dl.fs,
        rep |-> Rep("error", "validate", info, duplicates, removed, TRUE, TRUE)]
  ELSE [fs |-> dl.fs,
        rep |-> Rep("install", "", info, duplicates, removed, TRUE, TRUE)]

\* A keep test that looks at existence only, not at the size.
EnsuredByExistence(d, info, duplicates, removed) ==
  IF Exists(d, info.fileName)
  THEN [fs |-> d,
        rep |-> Rep("keep", "", info, duplicates, removed, FALSE, FALSE)]
  ELSE Validated(info, duplicates, removed, downloadFile(d, info.url, info.fileName))

\* Lines 284-299: the expected file is kept when it exists with a size above
\* zero, and downloaded otherwise.
Ensured(d, info, duplicates, removed) ==
  IF Exists(d, info.fileName) /\ Size(d, info.fileName) > 0
  THEN [fs |-> d,
        rep |-> Rep("keep", "", info, duplicates, removed, FALSE, FALSE)]
  ELSE Validated(info, duplicates, removed, downloadFile(d, info.url, info.fileName))

\* Lines 265-282: delete the duplicates.
Cleaned(d, info, duplicates) ==
  Ensured(RemoveFiles(d, Removable(d, duplicates)), info, duplicates,
          Removable(d, duplicates))

\* A processing that deletes the variants before it looks at the resolution.
ResolvedAfterCleaning(mod, snapshot, d, info) ==
  IF ~info.ok
  THEN [fs |-> RemoveFiles(d, Removable(d, Duplicates(mod, snapshot, info.fileName))),
        rep |-> Rep("error", "resolve", info, Duplicates(mod, snapshot, info.fileName),
                    Removable(d, Duplicates(mod, snapshot, info.fileName)), FALSE, FALSE)]
  ELSE Cleaned(d, info, Duplicates(mod, snapshot, info.fileName))

\* Lines 239-263 done: info is the target, or the error the catch logs.
Resolved(mod, snapshot, d, info) ==
  IF ~info.ok
  THEN [fs |-> d, rep |-> Rep("error", "resolve", info, {}, {}, FALSE, FALSE)]
  ELSE Cleaned(d, info, Duplicates(mod, snapshot, info.fileName))

\* processModDownload(mod, currentMods) on directory d: [fs, rep].
processModDownload(mod, snapshot, d) == Resolved(mod, snapshot, d, ResolveEntry(mod))

----------------------------------------------------------------------------
(* Self-update: the data AutoUpdater works on.                             *)

\* const APP_VERSION = '1.0.1'
APP_VERSION == << "1", ".", "0", ".", "1" >>

\* The value of a decimal digit.
Digit(c) == CHOOSE n \in 0..9 : << "0", "1", "2", "3", "4", "5", "6", "7", "8", "9" >>[n + 1] = c

\* parse of a string already freed of its optional 'v': one digit per
\* number, then nothing or a prerelease tag after '-'.
ParseCore(t) ==
  IF Len(t) < 5 THEN [ok |-> FALSE, major |-> 0, minor |-> 0, patch |-> 0, pre |-> FALSE]
  ELSE IF /\ \A i \in {1, 3, 5} : t[i] \in {"0", "1", "2", "3", "4", "5", "6", "7", "8", "9"}
          /\ t[2] = "."
          /\ t[4] = "."
          /\ IF Len(t) = 5 THEN TRUE
             ELSE IF Len(t) = 6 THEN FALSE
             ELSE t[6] = "-"
  THEN [ok |-> TRUE, major |-> Digit(t[1]), minor |-> Digit(t[3]), patch |-> Digit(t[5]),
        pre |-> Len(t) > 5]
  ELSE [ok |-> FALSE, major |-> 0, minor |-> 0, patch |-> 0, pre |-> FALSE]

\* parse of @std/semver; ok is FALSE where it throws.
parse(s) == ParseCore(StripV(s))

\* A comparison that also holds between equal versions.
greaterOrEqual(a, b) ==
  IF a.major # b.major THEN a.major > b.major
  ELSE IF a.minor # b.minor THEN a.minor > b.minor
  ELSE IF a.patch # b.patch THEN a.patch > b.patch
  ELSE b.pre \/ ~a.pre

\* greaterThan of @std/semver, a release being greater than its prereleases.
greaterThan(a, b) ==
  IF a.major # b.major THEN a.major > b.major
  ELSE IF a.minor # b.minor THEN a.minor > b.minor
  ELSE IF a.patch # b.patch THEN a.patch > b.patch
  ELSE b.pre /\ ~a.pre

\* getAssetForPlatform, lines 610-623: the asset name of a platform, "" where
\* it throws.
AssetName(os, arch) ==
  IF os = "windows" /\ arch = "x86_64" THEN "mod-manager-windows-x64.exe"
  ELSE IF os = "linux" /\ arch = "x86_64" THEN "mod-manager-linux-x64"
  ELSE IF os = "darwin" /\ arch = "aarch64" THEN "mod-manager-macos-arm64"
  ELSE ""

\* What the release request may answer.
NoRelease == [ok |-> FALSE, tag_name |-> << >>, assets |-> {}]

Releases ==
  {NoRelease}
  \cup {[ok |-> TRUE, tag_name |-> t, assets |-> a] :
          t \in {<< "1", ".", "0", ".", "0" >>, << "0", ".", "9", ".", "9" >>,
                 APP_VERSION, << "v" >> \o APP_VERSION,
                 << "1", ".", "0", ".", "1", "-", "r", "c" >>,
                 << "1", ".", "0", ".", "2" >>, << "v", "1", ".", "1", ".", "0" >>,
                 << "1", ".", "0", ".", "2", "-", "r", "c" >>,
                 << "l", "a", "t", "e", "s", "t" >>},
          a \in {{"mod-manager-windows-x64.exe", "mod-manager-linux-x64",
                  "mod-manager-macos-arm64"},
                 {"mod-manager-windows-x64.exe", "mod-manager-linux-arm64"},
                 {}}}

\* No child process has been spawned.
NoChild == [spawned |-> FALSE, bin |-> "none", args |-> << >>, code |-> 0]

\* main() past updater.check() of a development run: manager.init() is next.
UpdDone ==
  [pc |-> "init", log |-> "dev", isDev |-> TRUE, os |-> "linux", arch |-> "x86_64",
   exec |-> "prev", old |-> "none", new |-> "none", release |-> NoRelease,
   asset |-> "", args |-> << >>, child |-> NoChild, failed |-> {}, exit |-> 0]

\* A catch that ends the process with status 1.
CaughtFatal(u, error, failed) ==
  [u EXCEPT !.pc = "exited", !.log = error, !.failed = @ \cup failed, !.exit = 1]

\* The catch of check(), lines 576-579: the error is logged, check() returns.
Caught(u, error, failed) ==
  [u EXCEPT !.pc = "returned", !.log = error, !.failed = @ \cup failed]

----------------------------------------------------------------------------
(* The inputs the model draws from.                                        *)

Jar(base) == base \o DotJar

\* File names.
so1 == Jar(<< "s", "o", "-", "1" >>)
so2 == Jar(<< "s", "o", "-", "2" >>)
soex1 == Jar(<< "s", "o", "-", "e", "x", "-", "1" >>)
q1 == Jar(<< "q", "-", "1" >>)
q9 == Jar(<< "q", "-", "9" >>)
cu1 == Jar(<< "c", "u", "-", "1" >>)
zjar == Jar(<< "z" >>)

\* File contents.
OldJar == << 80, 75, 3, 4, 1 >>
NewJar == << 80, 75, 3, 4, 2 >>
Html == << 60, 33 >>
Empty == << >>

Mod(name, version, source, projectId, downloadUrl, fileName) ==
  [name |-> name, version |-> version, source |-> source,
   projectId |-> projectId, downloadUrl |-> downloadUrl, fileName |-> fileName]

\* Manifest entries.  An absent optional field is the empty string or the
\* empty sequence, which the code's truthiness tests treat alike.
mSo == Mod(<< "S", "o" >>, << >>, "modrinth", "P1", "", << >>)
mSoEx == Mod(<< "S", "o", " ", "E", "x" >>, << >>, "modrinth", "P2", "", << >>)
mJk == Mod(<< "J", "k" >>, << >>, "modrinth", "P3", "", << >>)
mGone == Mod(<< "Z", "z" >>, << >>, "modrinth", "PX", "", << >>)
mCu == Mod(<< "C", "u" >>, << "1" >>, "url", "", "u:cu", << >>)

ModPool == {mSo, mSoEx, mJk, mGone, mCu}

Ver(games, loaders, label, url, filename) ==
  [game_versions |-> games, loaders |-> loaders, version_number |-> label,
   files |-> << [url |-> url, filename |-> filename] >>]

\* What the registry lists before the upstream publishes So's version 2.
Registry0 ==
  [p \in {"P1", "P2", "P3"} |->
     CASE p = "P1" ->
            [ok |-> TRUE,
             list |-> << Ver({"1.20.1"}, {"fabric"}, << "1" >>, "u:so1", so1) >>]
       [] p = "P2" ->
            [ok |-> TRUE,
             list |-> << Ver({"1.20.1"}, {"fabric"}, << "1" >>, "u:soex1", soex1) >>]
       [] OTHER ->
            [ok |-> TRUE,
             list |-> << Ver({"1.20.1"}, {"forge"}, << "9" >>, "u:q9", q9),
                         Ver({"1.19", "1.20.1"}, {"fabric", "quilt"}, << "1" >>,
                             "u:q1", q1) >>]]

\* The version record the upstream publishes for So.
NewSo == Ver({"1.20.1"}, {"fabric"}, << "2" >>, "u:so2", so2)

Hits0 == [q \in {} |-> [ok |-> FALSE, list |-> << >>]]

Sound == [kind |-> "ok", body |-> NewJar]

\* What a URL may answer instead of the jar.
Faults == {[kind |-> "http", body |-> Empty],
           [kind |-> "nobody", body |-> Empty],
           [kind |-> "cut", body |-> << 80, 75 >>],
           [kind |-> "ok", body |-> Html],
           [kind |-> "ok", body |-> Empty]}

\* The URLs an entry can be resolved to.
UrlsOf(mod) ==
  IF mod.source = "modrinth"
  THEN IF mod.projectId \in DOMAIN Registry0
       THEN {Registry0[mod.projectId].list[i].files[1].url :
               i \in 1..Len(Registry0[mod.projectId].list)}
            \cup (IF mod.projectId = "P1" THEN {"u:so2"} ELSE {})
       ELSE {}
  ELSE IF mod.downloadUrl # "" THEN {mod.downloadUrl} ELSE {}

AllUrls == UNION {UrlsOf(m) : m \in ModPool}

\* Every URL answers its jar, but for at most one URL of the manifest.
Webs(mods) ==
  LET urls == UNION {UrlsOf(mods[i]) : i \in 1..Len(mods)}
  IN  {[u \in AllUrls |-> Sound]}
      \cup {[u \in AllUrls |-> IF u = bad THEN f ELSE Sound] : bad \in urls, f \in Faults}

\* Manifests: up to MaxMods distinct entries, in any order.
RECURSIVE SeqsOf(_, _)
SeqsOf(S, n) ==
  IF n = 0 THEN {<< >>}
  ELSE LET shorter == SeqsOf(S, n - 1)
       IN  shorter \cup {Append(t, x) : t \in {u \in shorter : Len(u) = n - 1}, x \in S}

Distinct(t) == \A i, j \in 1..Len(t) : i # j => t[i] # t[j]

Manifests == {t \in SeqsOf(ModPool, MaxMods) : Len(t) >= 1 /\ Distinct(t)}

\* Initial directories: up to MaxInitFiles files, each a jar installed
\* earlier; so1, soex1 and q1 may also be zero-byte leftovers.
InitNames == {so1, so2, soex1, q1, zjar}

InitBytes(f) == IF f \in {so1, soex1, q1} THEN {OldJar, Empty} ELSE {OldJar}

Dirs ==
  UNION {{d \in [S -> {OldJar, Empty}] : \A f \in S : d[f] \in InitBytes(f)} :
           S \in {T \in SUBSET InitNames : Cardinality(T) <= MaxInitFiles}}

----------------------------------------------------------------------------
(* Loading the manifest: the data loadConfig works on.                     *)

\* No externalSrc in the manifest.
NoSrc == [type |-> "none", url |-> "", repo |-> ""]

\* this.config as the constructor sets it, line 64.
DefaultConfig ==
  [modLoader |-> "fabric", gameVersion |-> "1.20.1", prune |-> "absent", mods |-> << >>]

\* No remote manifest was requested.  A field the remote document does not
\* have is "absent"; its mods are absent, a list, or a value that is truthy
\* but no list ("object").
NoRemote ==
  [kind |-> "none", modLoader |-> "absent", gameVersion |-> "absent", prune |-> "absent",
   mods |-> [kind |-> "absent", list |-> << >>], externalSrc |-> NoSrc]

\* What the request of the remote manifest may answer: fetch throws ("net"),
\* response.ok is false ("http"), response.json() throws ("invalid"), or a
\* document.
RemoteAnswers ==
  {[NoRemote EXCEPT !.kind = k] : k \in {"net", "http", "invalid"}}
  \cup {[kind |-> "doc", modLoader |-> l, gameVersion |-> g, prune |-> p, mods |-> m,
         externalSrc |-> x] :
          l \in {"absent", "forge"}, g \in {"absent", "1.19"}, p \in {"absent", "false"},
          m \in {[kind |-> "absent", list |-> << >>], [kind |-> "list", list |-> << >>],
                 [kind |-> "list", list |-> << mSoEx >>],
                 [kind |-> "object", list |-> << >>]},
          x \in {NoSrc, [type |-> "direct", url |-> "u:other", repo |-> ""]}}

\* { ...this.config, ...externalConfig }, lines 126-130, on the fields the
\* engine reads; mods that are no list are kept apart, in cfg.mods.
Merge(c, r) ==
  [modLoader |-> IF r.modLoader = "absent" THEN c.modLoader ELSE r.modLoader,
   gameVersion |-> IF r.gameVersion = "absent" THEN c.gameVersion ELSE r.gameVersion,
   prune |-> IF r.prune = "absent" THEN c.prune ELSE r.prune,
   mods |-> IF r.mods.kind = "list" THEN r.mods.list ELSE c.mods]

\* init() past loadConfig and ensureModsDirectory: syncMods is next.
CfgLoaded ==
  [pc |-> "sync", file |-> "json", local |-> [config |-> DefaultConfig, externalSrc |-> NoSrc],
   example |-> FALSE, dir |-> TRUE, made |-> FALSE, src |-> NoSrc, remote |-> NoRemote,
   mods |-> "list", log |-> "none"]

----------------------------------------------------------------------------
(* The run: init() after loadConfig, as syncMods proceeds.                 *)

InitEngine ==
  /\ \E mods \in Manifests, prune \in {"true", "false", "absent"} :
       /\ config = [modLoader |-> "fabric", gameVersion |-> "1.20.1",
                    prune |-> prune, mods |-> mods]
       /\ web \in Webs(mods)
  /\ versions = Registry0
  /\ hits = Hits0
  /\ fs \in Dirs
  /\ phase = "idle"
  /\ pass = 0
  /\ idx = 0
  /\ currentMods = {}
  /\ pruned = {}
  /\ report = << >>
  /\ fsStart = fs
  /\ fsAfterPrune = fs
  /\ fsBefore = fs
  /\ prevReport = << >>
  /\ versionsSeen = versions
  /\ changed = FALSE
  /\ exitCode = 0
  /\ vfile = [exists |-> FALSE, bytes |-> << >>]
  /\ vresult = "none"
  /\ upd = UpdDone
  /\ cfg = CfgLoaded

\* Every deletion of an existing file succeeds.
Init == InitEngine /\ locked = {}

\* Deno.remove may refuse one of the files of the directory.
InitFsFail == InitEngine /\ locked \in {{}} \cup {{f} : f \in DOMAIN fs}

\* A prune loop that logs a deletion it could not perform and goes on.
SyncModsStartTolerant ==
  /\ upd.pc = "init"
  /\ cfg.pc = "sync"
  /\ cfg.mods = "list"
  /\ phase # "entries"
  /\ pass < MaxPasses
  /\ currentMods' = getCurrentMods(fs)
  /\ fsStart' = fs
  /\ pruned' = {f \in Orphans(currentMods') : CanRemove(fs, f)}
  /\ phase' = "entries"
  /\ exitCode' = 0
  /\ fs' = RemoveFiles(fs, pruned')
  /\ fsAfterPrune' = fs'
  /\ fsBefore' = fs'
  /\ pass' = pass + 1
  /\ idx' = 0
  /\ report' = << >>
  /\ prevReport' = report
  /\ versionsSeen' = versions
  /\ changed' = (pass > 0 /\ versions # versionsSeen)
  /\ UNCHANGED << config, versions, hits, web, locked, vfile, vresult, upd, cfg >>

\* syncMods, lines 200-221: list the directory, then the prune loop.  A
\* Deno.remove that throws leaves syncMods, and init() exits with status 1;
\* the files deleted before it are those the listing put first.
SyncModsStart ==
  /\ upd.pc = "init"
  /\ cfg.pc = "sync"
  /\ cfg.mods = "list"
  /\ phase # "entries"
  /\ pass < MaxPasses
  /\ currentMods' = getCurrentMods(fs)
  /\ fsStart' = fs
  /\ IF \A f \in Orphans(currentMods') : CanRemove(fs, f)
     THEN /\ pruned' = Orphans(currentMods')
          /\ phase' = "entries"
          /\ exitCode' = 0
     ELSE /\ pruned' \in SUBSET {f \in Orphans(currentMods') : CanRemove(fs, f)}
          /\ phase' = "failed"
          /\ exitCode' = 1
  /\ fs' = RemoveFiles(fs, pruned')
  /\ fsAfterPrune' = fs'
  /\ fsBefore' = fs'
  /\ pass' = pass + 1
  /\ idx' = 0
  /\ report' = << >>
  /\ prevReport' = report
  /\ versionsSeen' = versions
  /\ changed' = (pass > 0 /\ versions # versionsSeen)
  /\ UNCHANGED << config, versions, hits, web, locked, vfile, vresult, upd, cfg >>

\* syncMods, lines 224-226: one turn of the loop over config.mods.
ProcessEntry ==
  /\ phase = "entries"
  /\ idx < Len(config.mods)
  /\ fs' = processModDownload(config.mods[idx + 1], currentMods, fs).fs
  /\ report' = Append(report, processModDownload(config.mods[idx + 1], currentMods, fs).rep)
  /\ fsBefore' = fs
  /\ idx' = idx + 1
  /\ UNCHANGED << config, versions, hits, web, locked, phase, pass, currentMods,
                  pruned, fsStart, fsAfterPrune, prevReport, versionsSeen, changed,
                  exitCode, vfile, vresult, upd, cfg >>

\* A loop over config.mods that an entry's error ends.
SyncModsReturnOnError ==
  /\ phase = "entries"
  /\ \/ idx = Len(config.mods)
     \/ report # << >> /\ report[Len(report)].outcome = "error"
  /\ phase' = "completed"
  /\ UNCHANGED << config, versions, hits, web, locked, fs, pass, idx, currentMods,
                  pruned, report, fsStart, fsAfterPrune, fsBefore, prevReport,
                  versionsSeen, changed, exitCode, vfile, vresult, upd, cfg >>

\* syncMods returns and init() logs 'Sincronizacion completada'.
SyncModsReturn ==
  /\ phase = "entries"
  /\ idx = Len(config.mods)
  /\ phase' = "completed"
  /\ UNCHANGED << config, versions, hits, web, locked, fs, pass, idx, currentMods,
                  pruned, report, fsStart, fsAfterPrune, fsBefore, prevReport,
                  versionsSeen, changed, exitCode, vfile, vresult, upd, cfg >>

\* Between two runs the upstream publishes a new version of So, which the
\* registry lists first.
Publish ==
  /\ phase \in {"completed", "failed"}
  /\ IF Len(versions["P1"].list) = 0 THEN TRUE ELSE versions["P1"].list[1] # NewSo
  /\ versions' = [versions EXCEPT !["P1"].list = << NewSo >> \o @]
  /\ UNCHANGED << config, hits, web, locked, fs, phase, pass, idx, currentMods,
                  pruned, report, fsStart, fsAfterPrune, fsBefore, prevReport,
                  versionsSeen, changed, exitCode, vfile, vresult, upd, cfg >>

Next == SyncModsStart \/ ProcessEntry \/ SyncModsReturn \/ Publish

Spec == Init /\ [][Next]_vars

SpecFsFail == InitFsFail /\ [][Next]_vars

----------------------------------------------------------------------------
(* The resolver on its own: a manifest of one registry entry, run against  *)
(* any short version list or any short list of search hits.                *)

MaxVersions == 2
MaxHits == 3

\* Version records: compatible ones labelled 1, v1 and 2, one for another
\* game version, one for another loader, one without a file.
recOne == Ver({"1.20.1"}, {"fabric"}, << "1" >>, "u:so1", so1)
recVOne == Ver({"1.20.1"}, {"fabric"}, << "v", "1" >>, "u:q1", q1)
recTwo == Ver({"1.20.1"}, {"fabric"}, << "2" >>, "u:so2", so2)
recOtherGame == Ver({"1.19"}, {"fabric"}, << "1" >>, "u:soex1", soex1)
recOtherLoader == Ver({"1.20.1"}, {"forge"}, << "1" >>, "u:q9", q9)
recNoFile ==
  [game_versions |-> {"1.20.1"}, loaders |-> {"fabric"}, version_number |-> << "1" >>,
   files |-> << >>]

RecPool == {recOne, recVOne, recTwo, recOtherGame, recOtherLoader, recNoFile}

\* What /v2/project/P1/version may answer.
VersionAnswers ==
  {NoAnswer} \cup {[ok |-> TRUE, list |-> l] : l \in SeqsOf(RecPool, MaxVersions)}

Hit(title, slug, projectId) == [title |-> title, slug |-> slug, project_id |-> projectId]

\* Search hits for the query "So": an exact title, an exact slug, a title
\* that contains the query, a title the query contains, and neither.
hitTitle == Hit(<< "S", "O" >>, << "x" >>, "P1")
hitSlug == Hit(<< "Z", "z" >>, << "S", "o" >>, "P2")
hitLonger == Hit(<< "S", "o", " ", "E", "x" >>, << "x" >>, "P3")
hitShorter == Hit(<< "O" >>, << "x" >>, "P4")
hitOther == Hit(<< "J", "k" >>, << "j", "k" >>, "P5")

HitPool == {hitTitle, hitSlug, hitLonger, hitShorter, hitOther}

\* What /v2/search may answer.
SearchAnswers ==
  {NoAnswer} \cup {[ok |-> TRUE, list |-> l] : l \in SeqsOf(HitPool, MaxHits)}

\* Pinned versions of the entry; the empty one is no pin.
Pins == {<< >>, << "1" >>, << "v", "1" >>, << "2" >>}

\* Either the entry names project P1 (or the unknown PX) and the version
\* list of P1 is any answer, or it names no project and the search is any
\* answer.
InitResolver ==
  /\ \E prune \in {"true", "false"}, pin \in Pins, pid \in {"P1", "PX", ""} :
       /\ config = [modLoader |-> "fabric", gameVersion |-> "1.20.1", prune |-> prune,
                    mods |-> << Mod(<< "S", "o" >>, pin, "modrinth", pid, "", << >>) >>]
       /\ IF pid = ""
          THEN /\ versions = Registry0
               /\ \E a \in SearchAnswers : hits = [q \in {<< "S", "o" >>} |-> a]
               /\ pin \in {<< >>, << "1" >>}
          ELSE /\ \E a \in VersionAnswers : versions = [Registry0 EXCEPT !["P1"] = a]
               /\ hits = Hits0
  /\ web = [u \in AllUrls |-> Sound]
  /\ locked = {}
  /\ fs \in {d \in Dirs : DOMAIN d \subseteq {so1}}
  /\ phase = "idle"
  /\ pass = 0
  /\ idx = 0
  /\ currentMods = {}
  /\ pruned = {}
  /\ report = << >>
  /\ fsStart = fs
  /\ fsAfterPrune = fs
  /\ fsBefore = fs
  /\ prevReport = << >>
  /\ versionsSeen = versions
  /\ changed = FALSE
  /\ exitCode = 0
  /\ vfile = [exists |-> FALSE, bytes |-> << >>]
  /\ vresult = "none"
  /\ upd = UpdDone
  /\ cfg = CfgLoaded

SpecResolver == InitResolver /\ [][Next]_vars

----------------------------------------------------------------------------
(* The entry sources: manifests that mix direct-URL, curseforge and        *)
(* registry entries.                                                       *)

culatest == Jar(<< "c", "-", "u", "-", "l", "a", "t", "e", "s", "t" >>)
xy == Jar(<< "x", "y" >>)
cf1 == Jar(<< "c", "f", "-", "1" >>)

\* Direct-URL entries: without a version, with a fileName, without a
\* downloadUrl; a curseforge entry that gives a downloadUrl all the same.
uLatest == Mod(<< "C", " ", "u" >>, << >>, "url", "", "u:cul", << >>)
uNamed == Mod(<< "N", "m" >>, << "1" >>, "url", "", "u:nm", xy)
uNoUrl == Mod(<< "N", "o" >>, << "1" >>, "url", "", "", << >>)
cfOne == Mod(<< "C", "f" >>, << "1" >>, "curseforge", "", "u:cf", << >>)

SourcePool == {mCu, uLatest, uNamed, uNoUrl, cfOne, mSo}

SourceManifests == {t \in SeqsOf(SourcePool, MaxMods) : Len(t) >= 1 /\ Distinct(t)}

SourceUrls == UNION {UrlsOf(m) : m \in SourcePool}

\* Every URL answers its jar, but for at most one of them.
SourceWebs ==
  {[u \in SourceUrls |-> Sound]}
  \cup {[u \in SourceUrls |-> IF u = bad THEN f ELSE Sound] :
          bad \in SourceUrls, f \in Faults}

\* Directories of up to MaxInitFiles jars installed earlier.
SourceDirs ==
  UNION {[S -> {OldJar}] :
           S \in {T \in SUBSET {cu1, Jar(<< "c", "u", "-", "9" >>),
                                 Jar(<< "n", "o", "-", "1" >>), cf1, so1} :
                    Cardinality(T) <= MaxInitFiles}}

InitSources ==
  /\ \E mods \in SourceManifests, prune \in {"true", "false"} :
       config = [modLoader |-> "fabric", gameVersion |-> "1.20.1",
                 prune |-> prune, mods |-> mods]
  /\ web \in SourceWebs
  /\ versions = Registry0
  /\ hits = Hits0
  /\ locked = {}
  /\ fs \in SourceDirs
  /\ phase = "idle"
  /\ pass = 0
  /\ idx = 0
  /\ currentMods = {}
  /\ pruned = {}
  /\ report = << >>
  /\ fsStart = fs
  /\ fsAfterPrune = fs
  /\ fsBefore = fs
  /\ prevReport = << >>
  /\ versionsSeen = versions
  /\ changed = FALSE
  /\ exitCode = 0
  /\ vfile = [exists |-> FALSE, bytes |-> << >>]
  /\ vresult = "none"
  /\ upd = UpdDone
  /\ cfg = CfgLoaded

SpecSources == InitSources /\ [][Next]_vars

----------------------------------------------------------------------------
(* Directories that also hold what the engine does not manage: files whose *)
(* names do not end in '.jar' (the test is case-sensitive) and             *)
(* subdirectories, next to jars of the manifest's mods.                    *)

\* so-2.txt, so-2.JAR and z.txt are regular files; so-3.jar and zz.jar are
\* subdirectories.
Unmanaged ==
  [f \in {<< "s", "o", "-", "2", ".", "t", "x", "t" >>,
          << "s", "o", "-", "2", ".", "J", "A", "R" >>,
          << "z", ".", "t", "x", "t" >>} |-> OldJar]
  @@ [f \in {Jar(<< "s", "o", "-", "3" >>), Jar(<< "z", "z" >>)} |-> DirEntry]

InitUnmanaged ==
  /\ \E mods \in {t \in Manifests : \A i \in 1..Len(t) : t[i] \in {mSo, mJk, mCu}},
        prune \in {"true", "false", "absent"} :
       /\ config = [modLoader |-> "fabric", gameVersion |-> "1.20.1",
                    prune |-> prune, mods |-> mods]
       /\ web \in Webs(mods)
  /\ versions = Registry0
  /\ hits = Hits0
  /\ locked = {}
  /\ \E S \in SUBSET {so1, so2, zjar}, T \in (SUBSET DOMAIN Unmanaged) \ {{}} :
       /\ Cardinality(S) <= MaxInitFiles
       /\ Cardinality(T) <= MaxInitFiles
       /\ fs = [f \in S \cup T |-> IF f \in S THEN OldJar ELSE Unmanaged[f]]
  /\ phase = "idle"
  /\ pass = 0
  /\ idx = 0
  /\ currentMods = {}
  /\ pruned = {}
  /\ report = << >>
  /\ fsStart = fs
  /\ fsAfterPrune = fs
  /\ fsBefore = fs
  /\ prevReport = << >>
  /\ versionsSeen = versions
  /\ changed = FALSE
  /\ exitCode = 0
  /\ vfile = [exists |-> FALSE, bytes |-> << >>]
  /\ vresult = "none"
  /\ upd = UpdDone
  /\ cfg = CfgLoaded

SpecUnmanaged == InitUnmanaged /\ [][Next]_vars

----------------------------------------------------------------------------
(* main(): updater.check(), then manager.init().  The files next to the    *)
(* executable hold "prev" (the running binary), "stale" (a backup an       *)
(* earlier update left), "asset" (the downloaded binary), "part" (a        *)
(* download cut short), "empty", or "none" when the path does not exist.   *)

InitUpdater ==
  /\ \E dev \in BOOLEAN, old \in {"none", "stale"}, args \in {<< >>, << "-y" >>},
        p \in {<< "windows", "x86_64" >>, << "linux", "x86_64" >>,
               << "darwin", "aarch64" >>, << "linux", "aarch64" >>} :
       upd = [pc |-> "check", log |-> "none", isDev |-> dev, os |-> p[1], arch |-> p[2],
              exec |-> "prev", old |-> old, new |-> "none", release |-> NoRelease,
              asset |-> "", args |-> args, child |-> NoChild, failed |-> {}, exit |-> 0]
  /\ config = [modLoader |-> "fabric", gameVersion |-> "1.20.1", prune |-> "false",
               mods |-> << mSo >>]
  /\ web = [u \in AllUrls |-> Sound]
  /\ versions = Registry0
  /\ hits = Hits0
  /\ locked = {}
  /\ fs \in {d \in Dirs : DOMAIN d \subseteq {so1}}
  /\ phase = "idle"
  /\ pass = 0
  /\ idx = 0
  /\ currentMods = {}
  /\ pruned = {}
  /\ report = << >>
  /\ fsStart = fs
  /\ fsAfterPrune = fs
  /\ fsBefore = fs
  /\ prevReport = << >>
  /\ versionsSeen = versions
  /\ changed = FALSE
  /\ exitCode = 0
  /\ vfile = [exists |-> FALSE, bytes |-> << >>]
  /\ vresult = "none"
  /\ cfg = CfgLoaded

\* A cleanup that comes after the development test.
CleanupAfterDevTest ==
  /\ upd.pc = "check"
  /\ \E removed \in BOOLEAN :
       /\ removed => (upd.old # "none" /\ ~upd.isDev)
       /\ upd' = [upd EXCEPT !.old = IF removed THEN "none" ELSE @,
                             !.failed = IF removed \/ upd.old = "none" \/ upd.isDev THEN @
                                        ELSE @ \cup {"removeOld"},
                             !.pc = IF upd.isDev THEN "returned" ELSE "release",
                             !.log = IF upd.isDev THEN "dev" ELSE @]
  /\ UNCHANGED engineVars

\* check(), lines 555-562: cleanupOldVersions, whose Deno.remove may fail
\* unnoticed, then the development test.
Cleanup ==
  /\ upd.pc = "check"
  /\ \E removed \in BOOLEAN :
       /\ removed => upd.old # "none"
       /\ upd' = [upd EXCEPT !.old = IF removed THEN "none" ELSE @,
                             !.failed = IF removed \/ upd.old = "none" THEN @
                                        ELSE @ \cup {"removeOld"},
                             !.pc = IF upd.isDev THEN "returned" ELSE "release",
                             !.log = IF upd.isDev THEN "dev" ELSE @]
  /\ UNCHANGED engineVars

\* check(), lines 564-575: the release is fetched, both versions are parsed
\* and compared.
GetLatestRelease ==
  /\ upd.pc = "release"
  /\ \E r \in Releases :
       upd' = IF ~r.ok THEN Caught(upd, "api", {})
              ELSE IF ~parse(r.tag_name).ok
              THEN Caught([upd EXCEPT !.release = r], "parse", {})
              ELSE IF greaterThan(parse(r.tag_name), parse(APP_VERSION))
              THEN [upd EXCEPT !.release = r, !.pc = "update", !.log = "available"]
              ELSE [upd EXCEPT !.release = r, !.pc = "returned", !.log = "uptodate"]
  /\ UNCHANGED engineVars

\* A selection that falls back on any asset of the release.
SelectAssetAny ==
  /\ upd.pc = "update"
  /\ \/ /\ AssetName(upd.os, upd.arch) \in upd.release.assets
        /\ upd' = [upd EXCEPT !.pc = "download", !.asset = AssetName(upd.os, upd.arch)]
     \/ /\ AssetName(upd.os, upd.arch) \notin upd.release.assets
        /\ upd.release.assets # {}
        /\ \E a \in upd.release.assets : upd' = [upd EXCEPT !.pc = "download", !.asset = a]
     \/ /\ upd.release.assets = {}
        /\ upd' = Caught(upd, "asset", {})
  /\ UNCHANGED engineVars

\* performUpdate, lines 634-645: the asset of the platform, then its request.
SelectAsset ==
  /\ upd.pc = "update"
  /\ upd' = IF AssetName(upd.os, upd.arch) = "" THEN Caught(upd, "platform", {})
            ELSE IF AssetName(upd.os, upd.arch) \notin upd.release.assets
            THEN Caught(upd, "asset", {})
            ELSE [upd EXCEPT !.pc = "download", !.asset = AssetName(upd.os, upd.arch)]
  /\ UNCHANGED engineVars

\* A download that goes on to the renames whatever became of the stream.
DownloadUnawaited ==
  /\ upd.pc = "download"
  /\ \E a \in {"net", "http", "nobody", "cut", "ok"}, opened \in BOOLEAN, chmod \in BOOLEAN :
       upd' = IF a \in {"net", "http"} THEN Caught(upd, "download", {"fetch"})
              ELSE IF ~opened THEN Caught(upd, "open", {"open"})
              ELSE IF a = "cut"
              THEN [upd EXCEPT !.new = "part", !.pc = "rename1", !.failed = @ \cup {"stream"}]
              ELSE IF upd.os # "windows" /\ ~chmod
              THEN Caught([upd EXCEPT !.new = IF a = "ok" THEN "asset" ELSE "empty"],
                          "chmod", {"chmod"})
              ELSE [upd EXCEPT !.new = IF a = "ok" THEN "asset" ELSE "empty",
                               !.pc = "rename1"]
  /\ UNCHANGED engineVars

\* performUpdate, lines 645-655: the answer a of the asset request (as for
\* downloadFile), Deno.open of the temp path, the stream, Deno.chmod.
Download ==
  /\ upd.pc = "download"
  /\ \E a \in {"net", "http", "nobody", "cut", "ok"}, opened \in BOOLEAN, chmod \in BOOLEAN :
       upd' = IF a \in {"net", "http"} THEN Caught(upd, "download", {"fetch"})
              ELSE IF ~opened THEN Caught(upd, "open", {"open"})
              ELSE IF a = "cut" THEN Caught([upd EXCEPT !.new = "part"], "stream", {"stream"})
              ELSE IF upd.os # "windows" /\ ~chmod
              THEN Caught([upd EXCEPT !.new = IF a = "ok" THEN "asset" ELSE "empty"],
                          "chmod", {"chmod"})
              ELSE [upd EXCEPT !.new = IF a = "ok" THEN "asset" ELSE "empty",
                               !.pc = "rename1"]
  /\ UNCHANGED engineVars

\* A first step that removes the executable instead of renaming it.
RemoveExecutable ==
  /\ upd.pc = "rename1"
  /\ \E removed \in BOOLEAN, cleaned \in BOOLEAN :
       upd' = IF removed
              THEN [upd EXCEPT !.exec = "none", !.pc = "rename2"]
              ELSE IF cleaned
              THEN Caught([upd EXCEPT !.new = "none"], "rename1", {"rename1"})
              ELSE Caught(upd, "removeTemp", {"rename1", "removeTemp"})
  /\ UNCHANGED engineVars

\* A first rename whose failure is thrown with the temp file left in place.
RenameToOldLeavingTemp ==
  /\ upd.pc = "rename1"
  /\ \E renamed \in BOOLEAN :
       upd' = IF renamed
              THEN [upd EXCEPT !.old = upd.exec, !.exec = "none", !.pc = "rename2"]
              ELSE Caught(upd, "rename1", {"rename1"})
  /\ UNCHANGED engineVars

\* performUpdate, lines 657-664: the executable is renamed to the backup path;
\* when that fails the temp file is removed, which may fail in turn.
RenameToOld ==
  /\ upd.pc = "rename1"
  /\ \E renamed \in BOOLEAN, removed \in BOOLEAN :
       upd' = IF renamed
              THEN [upd EXCEPT !.old = upd.exec, !.exec = "none", !.pc = "rename2"]
              ELSE IF removed
              THEN Caught([upd EXCEPT !.new = "none"], "rename1", {"rename1"})
              ELSE Caught(upd, "removeTemp", {"rename1", "removeTemp"})
  /\ UNCHANGED engineVars

\* A second rename whose failure is thrown at once, with no attempt to restore.
RenameToExecNoRestore ==
  /\ upd.pc = "rename2"
  /\ \E renamed \in BOOLEAN :
       upd' = IF renamed
              THEN [upd EXCEPT !.exec = upd.new, !.new = "none", !.pc = "spawn"]
              ELSE Caught(upd, "apply", {"rename2"})
  /\ UNCHANGED engineVars

\* performUpdate, lines 666-669: the temp file is renamed to the executable's
\* path.
RenameToExec ==
  /\ upd.pc = "rename2"
  /\ \E renamed \in BOOLEAN :
       upd' = IF renamed
              THEN [upd EXCEPT !.exec = upd.new, !.new = "none", !.pc = "spawn"]
              ELSE [upd EXCEPT !.pc = "restore", !.failed = @ \cup {"rename2"}]
  /\ UNCHANGED engineVars

\* A restoration that copies the backup to the executable's path and keeps it.
RestoreByCopy ==
  /\ upd.pc = "restore"
  /\ \E renamed \in BOOLEAN :
       upd' = IF renamed
              THEN Caught([upd EXCEPT !.exec = upd.old], "apply", {})
              ELSE Caught(upd, "restore", {"restore"})
  /\ UNCHANGED engineVars

\* performUpdate, lines 668-672: the backup is renamed back, outside any try.
Restore ==
  /\ upd.pc = "restore"
  /\ \E renamed \in BOOLEAN :
       upd' = IF renamed
              THEN Caught([upd EXCEPT !.exec = upd.old, !.old = "none"], "apply", {})
              ELSE Caught(upd, "restore", {"restore"})
  /\ UNCHANGED engineVars

\* performUpdate, lines 677-685: Deno.Command on the executable's path with
\* Deno.args, and spawn().
Spawn ==
  /\ upd.pc = "spawn"
  /\ \E spawned \in BOOLEAN :
       upd' = IF spawned
              THEN [upd EXCEPT !.pc = "child",
                               !.child = [spawned |-> TRUE, bin |-> upd.exec,
                                          args |-> upd.args, code |-> 0]]
              ELSE Caught(upd, "spawn", {"spawn"})
  /\ UNCHANGED engineVars

\* An exit with status 0 whatever the status of the child.
ChildExitZero ==
  /\ upd.pc = "child"
  /\ \E code \in {0, 1} :
       upd' = [upd EXCEPT !.pc = "exited", !.child.code = code, !.exit = 0]
  /\ UNCHANGED engineVars

\* performUpdate, line 686: the child ends with a status, Deno.exit with its
\* code.
ChildExit ==
  /\ upd.pc = "child"
  /\ \E code \in {0, 1} :
       upd' = [upd EXCEPT !.pc = "exited", !.child.code = code, !.exit = code]
  /\ UNCHANGED engineVars

\* main(), lines 696-698: check() has returned, manager.init() begins.
ManagerInit ==
  /\ upd.pc = "returned"
  /\ upd' = [upd EXCEPT !.pc = "init"]
  /\ UNCHANGED engineVars

NextUpdater ==
  \/ Cleanup \/ GetLatestRelease \/ SelectAsset \/ Download \/ RenameToOld
  \/ RenameToExec \/ Restore \/ Spawn \/ ChildExit \/ ManagerInit
  \/ SyncModsStart \/ ProcessEntry \/ SyncModsReturn

SpecUpdater == InitUpdater /\ [][NextUpdater]_vars

----------------------------------------------------------------------------
(* init(): loadConfig, ensureModsDirectory, then syncMods.  ./tn.mods.json *)
(* is missing, unreadable, invalid JSON, or the JSON of a manifest.        *)

InitConfig ==
  /\ \E kind \in {"missing", "unreadable", "invalid", "json"},
        prune \in {"true", "false", "absent"}, dir \in BOOLEAN,
        src \in {NoSrc, [type |-> "direct", url |-> "u:cfg", repo |-> ""],
                 [type |-> "direct", url |-> "", repo |-> ""],
                 [type |-> "github", url |-> "", repo |-> "o/r"],
                 [type |-> "github", url |-> "", repo |-> ""],
                 [type |-> "ftp", url |-> "u:cfg", repo |-> ""]} :
       /\ kind # "json" => (prune = "absent" /\ src = NoSrc)
       /\ cfg = [CfgLoaded EXCEPT
                   !.pc = "init", !.file = kind, !.dir = dir,
                   !.local = [config |-> [DefaultConfig EXCEPT !.prune = prune,
                                                               !.mods = << mSo >>],
                              externalSrc |-> src]]
       /\ fs \in IF dir THEN {d \in Dirs : DOMAIN d \subseteq {so1, zjar}}
                 ELSE {[f \in {} |-> << >>]}
  /\ config = DefaultConfig
  /\ upd = UpdDone
  /\ web = [u \in AllUrls |-> Sound]
  /\ versions = Registry0
  /\ hits = Hits0
  /\ locked = {}
  /\ phase = "idle"
  /\ pass = 0
  /\ idx = 0
  /\ currentMods = {}
  /\ pruned = {}
  /\ report = << >>
  /\ fsStart = fs
  /\ fsAfterPrune = fs
  /\ fsBefore = fs
  /\ prevReport = << >>
  /\ versionsSeen = versions
  /\ changed = FALSE
  /\ exitCode = 0
  /\ vfile = [exists |-> FALSE, bytes |-> << >>]
  /\ vresult = "none"

\* A loadConfig that goes on with the constructor's configuration once the
\* example is written.
LoadConfigContinue ==
  /\ cfg.pc = "init"
  /\ \/ /\ cfg.file = "missing"
        /\ cfg' = [cfg EXCEPT !.pc = "loaded", !.example = TRUE, !.log = "example"]
        /\ UNCHANGED << config, exitCode >>
     \/ /\ cfg.file \in {"unreadable", "invalid"}
        /\ cfg' = [cfg EXCEPT !.pc = "exited", !.log = "error"]
        /\ exitCode' = 1
        /\ config' = config
     \/ /\ cfg.file = "json"
        /\ config' = cfg.local.config
        /\ cfg' = [cfg EXCEPT !.src = cfg.local.externalSrc,
                              !.pc = IF cfg.local.externalSrc = NoSrc THEN "loaded"
                                     ELSE "external"]
        /\ exitCode' = exitCode
  /\ UNCHANGED loadVars

\* loadConfig, lines 81-101, up to the request of processExternalSource.  A
\* missing file: createExampleConfig, whose write may fail, and Deno.exit(0);
\* any other error is thrown to the catch of init(), which exits with 1.
LoadConfig ==
  /\ cfg.pc = "init"
  /\ \/ /\ cfg.file = "missing"
        /\ \E written \in BOOLEAN :
             /\ cfg' = [cfg EXCEPT !.pc = "exited", !.example = written,
                                   !.log = IF written THEN "example" ELSE "error"]
             /\ exitCode' = IF written THEN 0 ELSE 1
        /\ config' = config
     \/ /\ cfg.file \in {"unreadable", "invalid"}
        /\ cfg' = [cfg EXCEPT !.pc = "exited", !.log = "error"]
        /\ exitCode' = 1
        /\ config' = config
     \/ /\ cfg.file = "json"
        /\ config' = cfg.local.config
        /\ cfg' = [cfg EXCEPT !.src = cfg.local.externalSrc,
                              !.pc = IF cfg.local.externalSrc = NoSrc THEN "loaded"
                                     ELSE "external"]
        /\ exitCode' = exitCode
  /\ UNCHANGED loadVars

\* processExternalSource, lines 103-138: an externalSrc of an unknown type or
\* without its repo or url throws to init(); the answer r of the request is
\* applied when it is a document whose mods are truthy, and otherwise the
\* error is logged and the local configuration stays.
ProcessExternalSource ==
  /\ cfg.pc = "external"
  /\ \/ /\ ~(\/ cfg.src.type = "github" /\ cfg.src.repo # ""
             \/ cfg.src.type = "direct" /\ cfg.src.url # "")
        /\ cfg' = [cfg EXCEPT !.pc = "exited", !.log = "error"]
        /\ exitCode' = 1
        /\ config' = config
     \/ /\ \/ cfg.src.type = "github" /\ cfg.src.repo # ""
           \/ cfg.src.type = "direct" /\ cfg.src.url # ""
        /\ \E r \in RemoteAnswers :
             IF r.kind = "doc" /\ r.mods.kind # "absent"
             THEN /\ config' = Merge(config, r)
                  /\ cfg' = [cfg EXCEPT !.pc = "loaded", !.remote = r,
                                        !.mods = r.mods.kind, !.log = "applied"]
             ELSE /\ config' = config
                  /\ cfg' = [cfg EXCEPT !.pc = "loaded", !.remote = r,
                                        !.log = "external"]
        /\ exitCode' = exitCode
  /\ UNCHANGED loadVars

\* ensureModsDirectory, lines 176-183; a Deno.mkdir that throws ends init().
EnsureModsDirectory ==
  /\ cfg.pc = "loaded"
  /\ \/ /\ cfg.dir
        /\ cfg' = [cfg EXCEPT !.pc = "sync"]
        /\ exitCode' = exitCode
     \/ /\ ~cfg.dir
        /\ \E made \in BOOLEAN :
             /\ cfg' = IF made THEN [cfg EXCEPT !.pc = "sync", !.dir = TRUE, !.made = TRUE]
                       ELSE [cfg EXCEPT !.pc = "exited", !.log = "error"]
             /\ exitCode' = IF made THEN exitCode ELSE 1
  /\ config' = config
  /\ UNCHANGED loadVars

\* syncMods on a this.config.mods that is no list: mods.map (line 208) or the
\* for-of (line 224) throws before anything is deleted or processed, and
\* init() exits with 1.
SyncModsThrow ==
  /\ upd.pc = "init"
  /\ cfg.pc = "sync"
  /\ cfg.mods # "list"
  /\ phase = "idle"
  /\ phase' = "failed"
  /\ exitCode' = 1
  /\ pass' = pass + 1
  /\ UNCHANGED << config, versions, hits, web, locked, fs, idx, currentMods, pruned,
                  report, fsStart, fsAfterPrune, fsBefore, prevReport, versionsSeen,
                  changed, vfile, vresult, upd, cfg >>

NextConfig ==
  \/ LoadConfig \/ ProcessExternalSource \/ EnsureModsDirectory \/ SyncModsThrow
  \/ SyncModsStart \/ ProcessEntry \/ SyncModsReturn

SpecConfig == InitConfig /\ [][NextConfig]_vars

----------------------------------------------------------------------------
(* The validator on its own: validateJarFile applied to any short file.    *)

Bytes == {0, 3, 4, 75, 80}

RECURSIVE ByteSeqs(_)
ByteSeqs(n) ==
  IF n = 0 THEN {<< >>}
  ELSE LET shorter == ByteSeqs(n - 1)
       IN  shorter \cup {Append(t, b) : t \in {u \in shorter : Len(u) = n - 1}, b \in Bytes}

InitValidator ==
  /\ vfile \in [exists : BOOLEAN, bytes : ByteSeqs(MaxJarLen)]
  /\ vfile.exists \/ vfile.bytes = << >>
  /\ vresult = "none"
  /\ upd = UpdDone
  /\ cfg = CfgLoaded
  /\ config = [modLoader |-> "fabric", gameVersion |-> "1.20.1",
               prune |-> "absent", mods |-> << >>]
  /\ versions = Registry0
  /\ hits = Hits0
  /\ web = [u \in AllUrls |-> Sound]
  /\ locked = {}
  /\ fs = [f \in {} |-> << >>]
  /\ phase = "validator"
  /\ pass = 0
  /\ idx = 0
  /\ currentMods = {}
  /\ pruned = {}
  /\ report = << >>
  /\ fsStart = fs
  /\ fsAfterPrune = fs
  /\ fsBefore = fs
  /\ prevReport = << >>
  /\ versionsSeen = versions
  /\ changed = FALSE
  /\ exitCode = 0

\* The directory that holds vfile at path so1, or nothing.
VDir == IF vfile.exists THEN [f \in {so1} |-> vfile.bytes] ELSE [f \in {} |-> << >>]

Validate ==
  /\ phase = "validator"
  /\ vresult = "none"
  /\ vresult' = IF validateJarFile(VDir, so1) THEN "valid" ELSE "invalid"
  /\ UNCHANGED << config, versions, hits, web, locked, fs, phase, pass, idx,
                  currentMods, pruned, report, fsStart, fsAfterPrune, fsBefore,
                  prevReport, versionsSeen, changed, exitCode, vfile, upd,
                  cfg >>

SpecValidator == InitValidator /\ [][Validate]_vars

----------------------------------------------------------------------------
(* Properties.                                                             *)

\* The entry processModDownload ran last in this run, and what it reported.
LastMod == config.mods[Len(report)]

Last == report[Len(report)]

\* A file of the snapshot is a variant of mod: its base name starts with the
\* mod's normalized name.
VariantOf(f, mod) == StartsWith(extractModBaseName(f), NormalizedName(mod.name))

\* The bytes are those of a zip archive's local file header.
IsJar(bytes) == Len(bytes) >= 4 /\ SubSeq(bytes, 1, 4) = << 80, 75, 3, 4 >>

AllSucceeded(rep) ==
  \A i \in 1..Len(rep) : rep[i].outcome \in {"keep", "install"}

\* C1 (Convergence): after a pass in which every entry succeeded, the
\* directory holds for every entry exactly one .jar file of its name, the
\* expected one.  Stated by what this entails whatever the names are: every
\* entry's expected file is in the directory when the pass ends.
C1_Convergence ==
  (phase = "completed" /\ AllSucceeded(report))
    => \A i \in 1..Len(report) : Exists(fs, report[i].expected)

\* C2 (Idempotence): a second pass over an unchanged manifest, with the
\* registry and the directory untouched in between, downloads nothing and
\* deletes nothing.  Stated for a second pass that follows a pass in which
\* every entry succeeded.
C2_Idempotence ==
  (/\ pass >= 2
   /\ phase = "completed"
   /\ ~changed
   /\ Len(prevReport) = Len(config.mods)
   /\ AllSucceeded(prevReport))
    => /\ pruned = {}
       /\ \A i \in 1..Len(report) : ~report[i].downloaded /\ report[i].removed = {}

\* C3 (No loss of a working installation): when the download or the
\* validation of an entry's target fails, the valid variant of that entry
\* the directory held when the pass began is still there when the pass ends.
C3_NoLoss ==
  phase = "completed"
    => \A i \in 1..Len(report) :
         report[i].step \in {"download", "validate"}
           => \A f \in currentMods :
                (/\ VariantOf(f, config.mods[i])
                 /\ f # report[i].expected
                 /\ validateJarFile(fsStart, f))
                  => Exists(fs, f)

\* C6 (Validation failure cleanup): when a downloaded file fails validation,
\* no file is left at the expected path when the pass ends.
C6_Cleanup ==
  phase = "completed"
    => \A i \in 1..Len(report) :
         report[i].step = "validate" => ~Exists(fs, report[i].expected)

\* C7 (Validator acceptance): validateJarFile accepts a file if and only if
\* it exists, is not empty, and its first four bytes are 50 4B 03 04; a file
\* shorter than four bytes is rejected.
C7_Validator ==
  vresult # "none"
    => ((vresult = "valid") <=> (vfile.exists /\ IsJar(vfile.bytes)))

C7_Witness == vresult = "valid" /\ Len(vfile.bytes) > 4

\* The expected file was in the directory, with a size above zero, when the
\* last entry's turn came.
LastWasInstalled ==
  Exists(fsBefore, Last.expected) /\ Size(fsBefore, Last.expected) > 0

\* What the last entry's own steps had to fail on: its resolution, or, the
\* expected file not being installed, its download or the bytes it brought.
LastOwnFailure ==
  \/ ~ResolveEntry(LastMod).ok
  \/ /\ ~LastWasInstalled
     /\ (Fetch(Last.url).kind # "ok" \/ ~IsJar(Fetch(Last.url).body))

\* C4 (Partial failure isolation): a failing step of one entry does not end
\* the pass.  The pass is aborted by the prune loop only, before any entry
\* is processed; once the loop over the entries has begun the pass ends as
\* completed, with exit status 0 and every entry processed; an entry is
\* reported as failed exactly when one of its own steps fails, whatever
\* happened to the entries before it, and is kept or installed otherwise;
\* and a failed entry leaves every file but its own stale variants and its
\* own expected file as it found it.
C4_Isolation ==
  /\ phase = "failed" => (report = << >> /\ Orphans(currentMods) \cap locked # {})
  /\ phase = "completed" => (Len(report) = Len(config.mods) /\ exitCode = 0)
  /\ report # << >> =>
       /\ (Last.outcome = "error") <=> LastOwnFailure
       /\ (Last.outcome \in {"keep", "install"}) <=> ~LastOwnFailure
       /\ Last.outcome = "error" =>
            \A f \in (DOMAIN fs \cup DOMAIN fsBefore)
                        \ (Last.duplicates \cup {Last.expected}) :
              f \in DOMAIN fs /\ f \in DOMAIN fsBefore /\ fs[f] = fsBefore[f]

C4_Witness ==
  /\ phase = "completed"
  /\ Len(report) = 2
  /\ report[1].outcome = "error"
  /\ report[2].outcome = "install"

\* The files of the snapshot no entry's normalized name is contained in.
OrphansOfManifest == {f \in currentMods : IsOrphan(f, config.mods)}

\* The manifest's prune flag is true or absent.
PruneWanted == config.prune \in {"true", "absent"}

\* C5 as claimed (Pruning toggle): a .jar file matching no entry is deleted
\* by the pass when prune is true or absent, and is still present when the
\* pass ends, unchanged, when prune is false.  Stated for passes the prune
\* loop did not abort.
C5_PruneToggleUnchanged ==
  \A f \in OrphansOfManifest :
    /\ (PruneWanted /\ phase \in {"entries", "completed"})
         => (f \in pruned /\ ~Exists(fsAfterPrune, f))
    /\ (config.prune = "false" /\ phase = "completed")
         => (Exists(fs, f) /\ fs[f] = fsStart[f])

\* C5 (Pruning toggle), amended: a .jar file matching no entry is deleted by
\* the prune loop when prune is true or absent (a refused deletion aborts
\* the pass), and when prune is false it is still present when the pass
\* ends, its bytes unchanged unless it was a zero-size file at the expected
\* path of an entry, which that entry then downloaded over.
C5_PruneToggle ==
  \A f \in OrphansOfManifest :
    /\ (PruneWanted /\ phase \in {"entries", "completed"})
         => (f \in pruned /\ ~Exists(fsAfterPrune, f))
    /\ (PruneWanted /\ phase = "failed") => Orphans(currentMods) \cap locked # {}
    /\ config.prune = "false" => phase # "failed"
    /\ (config.prune = "false" /\ phase = "completed")
         => /\ Exists(fs, f)
            /\ \/ fs[f] = fsStart[f]
               \/ /\ Size(fsStart, f) = 0
                  /\ \E i \in 1..Len(report) :
                       report[i].expected = f /\ report[i].downloaded

C5_Witness ==
  /\ config.prune = "false"
  /\ phase = "completed"
  /\ \E f \in OrphansOfManifest : Size(fsStart, f) = 0 /\ fs[f] # fsStart[f]

\* C8 (Keep): when an entry's expected file is in the directory with a size
\* above zero, the entry is kept: nothing is downloaded, nothing validated,
\* and the file's bytes stay as they were.  When the file is missing or has
\* size zero a download is made, and validation follows exactly when the
\* download succeeded.
C8_Keep ==
  (report # << >> /\ Last.step # "resolve")
    => IF LastWasInstalled
       THEN /\ Last.outcome = "keep"
            /\ ~Last.downloaded
            /\ ~Last.validated
            /\ Exists(fs, Last.expected)
            /\ fs[Last.expected] = fsBefore[Last.expected]
       ELSE /\ Last.outcome # "keep"
            /\ Last.downloaded
            /\ Last.validated <=> (Fetch(Last.url).kind = "ok")

C8_Witness ==
  /\ report # << >>
  /\ Last.outcome = "keep"
  /\ Size(fsBefore, Last.expected) > 0
  /\ fs[Last.expected] = fsBefore[Last.expected]

\* C9 (Stale-variant removal): once an entry resolved to its expected file
\* has been processed, no file of the snapshot whose base name starts with
\* the entry's normalized name and that is not the expected file is left in
\* the directory, whether prune is true, false or absent.
C9_StaleRemoval ==
  (report # << >> /\ Last.step # "resolve")
    => \A f \in currentMods :
         (VariantOf(f, LastMod) /\ f # Last.expected) => ~Exists(fs, f)

C9_Witness ==
  /\ report # << >>
  /\ config.prune = "false"
  /\ Last.removed # {}
  /\ \E f \in Last.removed : Exists(fsBefore, f) /\ ~Exists(fs, f)

\* The file of the first version the registry lists for the project that
\* supports the configured game version and loader.
FirstCompatibleFile(projectId) ==
  LET list == versions[projectId].list
      first == CHOOSE i \in 1..Len(list) :
                 /\ Compatible(list[i])
                 /\ \A j \in 1..(i - 1) : ~Compatible(list[j])
  IN  list[first].files[1].filename

\* C10 (Upstream update detection): an unpinned registry entry is resolved
\* anew on every pass, installed or not, to the file of the first compatible
\* version the registry lists during that pass; when that is another file
\* than the installed one, the installed one is deleted and the new one
\* downloaded, and once it has been validated it is the only variant of the
\* entry left.
C10_UpdateDetection ==
  (/\ report # << >>
   /\ versions = versionsSeen
   /\ Last.step # "resolve"
   /\ LastMod.source = "modrinth"
   /\ LastMod.version = << >>)
    => /\ Last.expected = FirstCompatibleFile(LastMod.projectId)
       /\ \A f \in currentMods :
            (VariantOf(f, LastMod) /\ f # Last.expected)
              => /\ ~Exists(fs, f)
                 /\ ~LastWasInstalled => Last.downloaded
                 /\ Last.outcome = "install"
                      => /\ Last.validated
                         /\ validateJarFile(fs, Last.expected)
                         /\ {g \in currentMods \cup {Last.expected} :
                               VariantOf(g, LastMod) /\ Exists(fs, g)} = {Last.expected}

C10_Witness ==
  /\ changed
  /\ report # << >>
  /\ LastMod = mSo
  /\ Last.expected = so2
  /\ so1 \in Last.removed
  /\ Last.outcome = "install"
  /\ so1 \notin DOMAIN fs
  /\ so2 \in DOMAIN fs

----------------------------------------------------------------------------
(* Properties of the resolver and of the entry sources.                    *)

\* The version list the last entry's resolution was answered with.
LastList == versions[Last.projectId].list

\* Two labels are equal up to a leading 'v' on one of them.
SameUpToV(a, b) == a = b \/ a = << "v" >> \o b \/ b = << "v" >> \o a

\* The last entry is a registry entry whose target was resolved from the
\* registry as it is now.
LastResolvedFromRegistry ==
  /\ report # << >>
  /\ versions = versionsSeen
  /\ LastMod.source = "modrinth"
  /\ Last.step # "resolve"

\* C11 (Locked mode): on every pass a registry entry with a pinned version
\* is resolved to a version record whose label is the pinned version up to a
\* leading 'v', also when the registry lists newer compatible versions
\* first; the file the entry is left with is the file of that record.
C11_LockedMode ==
  (LastResolvedFromRegistry /\ LastMod.version # << >>)
    => /\ SameUpToV(Last.version, LastMod.version)
       /\ \E i \in 1..Len(LastList) :
            /\ LastList[i].version_number = Last.version
            /\ Len(LastList[i].files) > 0
            /\ LastList[i].files[1].filename = Last.expected
       /\ Last.outcome \in {"keep", "install"} => Exists(fs, Last.expected)

C11_Witness ==
  /\ pass = 2
  /\ changed
  /\ report # << >>
  /\ LastMod.version = << "1" >>
  /\ versions["P1"].list = << NewSo, recOne >>
  /\ Last.version = << "1" >>
  /\ Last.expected = so1
  /\ Last.outcome = "keep"
  /\ prevReport[1].expected = so1
  /\ fs[so1] = fsStart[so1]

\* A version record lists the manifest's game version and its loader.
PassesFilters(v) ==
  config.gameVersion \in v.game_versions /\ config.modLoader \in v.loaders

\* A label without its leading 'v', if it has one.
WithoutV(label) ==
  IF Len(label) > 0 /\ label[1] = "v" THEN SubSeq(label, 2, Len(label)) ELSE label

\* The smallest member of a non-empty set of indices.
Least(S) == CHOOSE i \in S : \A j \in S : i <= j

\* The last entry was resolved to record i of the list: to its label and to
\* the URL and file name of its first file (a record without a file is an
\* error).
LastChose(list, i) ==
  IF Len(list[i].files) = 0 THEN Last.step = "resolve"
  ELSE /\ Last.step # "resolve"
       /\ Last.version = list[i].version_number
       /\ Last.url = list[i].files[1].url
       /\ Last.expected = list[i].files[1].filename

\* The last entry is a registry entry whose project's version list was
\* requested, and answered with a list.
LastListAnswered ==
  /\ report # << >>
  /\ versions = versionsSeen
  /\ LastMod.source = "modrinth"
  /\ Last.projectId \in DOMAIN versions
  /\ versions[Last.projectId].ok

\* The compatible records whose label is p, and those whose label is p once
\* a leading 'v' is removed from the label or from p.
ExactMatches(list, p) ==
  {i \in 1..Len(list) : PassesFilters(list[i]) /\ list[i].version_number = p}

LooseMatches(list, p) ==
  {i \in 1..Len(list) :
     PassesFilters(list[i]) /\ WithoutV(list[i].version_number) = WithoutV(p)}

\* C12 (Pinned-version matching): for a pinned version p the resolver takes
\* the first compatible record labelled exactly p; if there is none, the
\* first compatible record whose label equals p after an optional leading
\* 'v' is removed from either of them; it fails only if neither exists.
C12_PinnedMatching ==
  (LastListAnswered /\ LastMod.version # << >>)
    => IF ExactMatches(LastList, LastMod.version) # {}
       THEN LastChose(LastList, Least(ExactMatches(LastList, LastMod.version)))
       ELSE IF LooseMatches(LastList, LastMod.version) # {}
       THEN LastChose(LastList, Least(LooseMatches(LastList, LastMod.version)))
       ELSE Last.step = "resolve"

\* The records of a list that pass both filters.
Passing(list) == {i \in 1..Len(list) : PassesFilters(list[i])}

\* C13 (Unpinned version selection): with no pinned version the resolver
\* returns the first record, in registry order, that lists the manifest's
\* game version and its loader, with the URL and file name of that record's
\* first file; it fails when no record passes both filters, and never
\* returns a record that fails one of them.
C13_UnpinnedSelection ==
  (LastListAnswered /\ LastMod.version = << >>)
    => IF Passing(LastList) # {}
       THEN LastChose(LastList, Least(Passing(LastList)))
       ELSE Last.step = "resolve"

C13_Witness ==
  /\ LastListAnswered
  /\ LastMod.version = << >>
  /\ LastList = << recOtherLoader, recOne >>
  /\ Last.step # "resolve"
  /\ Last.expected = so1
  /\ Last.url = "u:so1"

\* C14 (Explicit identifier): for a registry entry that carries a projectId
\* no search request is made and the version list requested is that of this
\* identifier; a search request is made only for registry entries without a
\* projectId.
C14_ExplicitIdentifier ==
  (report # << >> /\ LastMod.source = "modrinth")
    => IF LastMod.projectId # ""
       THEN ~Last.searched /\ Last.projectId = LastMod.projectId
       ELSE Last.searched

C14_Witness ==
  /\ report # << >>
  /\ LastMod.source = "modrinth"
  /\ LastMod.projectId = "P1"
  /\ ~Last.searched
  /\ Last.projectId = "P1"
  /\ Last.step # "resolve"

\* The hits the last entry's search was answered with, and the query in
\* lower case.
LastHits == hits[LastMod.name].list

LastQuery == toLowerCase(LastMod.name)

\* The hits whose title or slug is the query, case ignored, and those whose
\* lowercased title contains the query or is contained in it.
EqualHits(list, q) ==
  {i \in 1..Len(list) : toLowerCase(list[i].title) = q \/ toLowerCase(list[i].slug) = q}

ContainingHits(list, q) ==
  {i \in 1..Len(list) :
     Includes(toLowerCase(list[i].title), q) \/ Includes(q, toLowerCase(list[i].title))}

\* The last entry's search was answered with a non-empty list of hits.
LastSearchAnswered ==
  /\ report # << >>
  /\ LastMod.source = "modrinth"
  /\ Last.searched
  /\ LastMod.name \in DOMAIN hits
  /\ hits[LastMod.name].ok
  /\ Len(LastHits) > 0

\* C15 (Discovery selection order): from a non-empty list of hits the
\* project chosen is that of the first hit whose title or slug equals the
\* query, case ignored; if there is none, of the first hit whose lowercased
\* title contains the lowercased query or is contained in it; if there is
\* none, of the first hit.  An exact match anywhere in the list wins over a
\* substring match before it.
C15_DiscoveryOrder ==
  LastSearchAnswered
    => Last.projectId =
         (IF EqualHits(LastHits, LastQuery) # {}
          THEN LastHits[Least(EqualHits(LastHits, LastQuery))].project_id
          ELSE IF ContainingHits(LastHits, LastQuery) # {}
          THEN LastHits[Least(ContainingHits(LastHits, LastQuery))].project_id
          ELSE LastHits[1].project_id)

C15_Witness ==
  /\ LastSearchAnswered
  /\ LastHits = << hitLonger, hitOther, hitSlug >>
  /\ Last.projectId = "P2"

\* The search of the last entry found nothing: it failed, or its list of
\* hits is empty.
LastSearchEmpty ==
  /\ Last.searched
  /\ \/ LastMod.name \notin DOMAIN hits
     \/ ~hits[LastMod.name].ok
     \/ Len(hits[LastMod.name].list) = 0

\* The version request of the last entry failed or answered no list.
LastListMissing ==
  Last.projectId \notin DOMAIN versions \/ ~versions[Last.projectId].ok

\* The version list of the last entry has no compatible record, or the first
\* compatible record, which an unpinned entry takes, has no file.
LastListUseless ==
  /\ ~LastListMissing
  /\ \/ Passing(LastList) = {}
     \/ /\ LastMod.version = << >>
        /\ Len(LastList[Least(Passing(LastList))].files) = 0

SynthesizedName(mod) ==
  NormalizedName(mod.name) \o << "-" >>
  \o (IF mod.version = << >> THEN << "l", "a", "t", "e", "s", "t" >> ELSE mod.version)
  \o << ".", "j", "a", "r" >>

\* C17 (Direct-URL entries): an entry with source 'url' causes no registry
\* request; its expected file name is its fileName when given and otherwise
\* '<name lowercased, whitespace replaced by hyphens>-<version or
\* "latest">.jar', and its download URL is its downloadUrl; without a
\* downloadUrl the entry fails before any file is deleted or downloaded.
C17_DirectUrl ==
  (report # << >> /\ LastMod.source = "url")
    => /\ ~Last.searched
       /\ Last.projectId = ""
       /\ IF LastMod.downloadUrl = ""
          THEN /\ Last.outcome = "error"
               /\ Last.step = "resolve"
               /\ Last.removed = {}
               /\ ~Last.downloaded
               /\ fs = fsBefore
          ELSE /\ Last.step # "resolve"
               /\ Last.url = LastMod.downloadUrl
               /\ Last.expected = IF LastMod.fileName # << >> THEN LastMod.fileName
                                  ELSE SynthesizedName(LastMod)

C17_Witness ==
  /\ report # << >>
  /\ LastMod = uNamed
  /\ Last.expected = xy
  /\ Last.url = "u:nm"
  /\ Last.outcome = "install"
  /\ Len(report) = 2
  /\ config.mods[1] = uLatest
  /\ report[1].expected = culatest
  /\ report[1].downloaded

\* C18 (CurseForge fails fast): an entry with source 'curseforge' always ends
\* in an error reported for that entry, with no network request, no download
\* and no file created for it, and the remaining entries are still
\* processed.
C18_CurseForge ==
  /\ (report # << >> /\ LastMod.source = "curseforge")
       => /\ Last.outcome = "error"
          /\ Last.step = "resolve"
          /\ ~Last.searched
          /\ Last.projectId = ""
          /\ ~Last.downloaded
          /\ Last.removed = {}
          /\ fs = fsBefore
  /\ phase = "completed" => /\ Len(report) = Len(config.mods)
                            /\ exitCode = 0

C18_Witness ==
  /\ phase = "completed"
  /\ Len(report) = 2
  /\ config.mods[1] = cfOne
  /\ report[1].outcome = "error"
  /\ report[2].outcome = "install"
  /\ cf1 \notin DOMAIN fs

----------------------------------------------------------------------------
(* Properties of the self-update.                                          *)

\* The state of the update sequence, in the words of its description; "Ended"
\* when check() has returned for another reason than those named.
UState(u) ==
  IF u.pc = "check" THEN "Idle"
  ELSE IF u.pc = "release" THEN "CheckingRemote"
  ELSE IF u.pc = "update" THEN "UpdateAvailable"
  ELSE IF u.pc = "download" THEN "Downloading"
  ELSE IF u.pc \in {"rename1", "rename2", "restore"} THEN "Swapping"
  ELSE IF u.pc \in {"spawn", "child", "exited"} THEN "Restarting"
  ELSE IF u.log = "uptodate" THEN "UpToDate"
  ELSE IF u.exec = "none" /\ u.old # "none" THEN "RollbackFailed"
  ELSE "Ended"

\* The moves of the state machine; a failure or the development mode ends
\* the sequence where it stands.
UMoves ==
  {<< "Idle", "CheckingRemote" >>, << "CheckingRemote", "UpToDate" >>,
   << "CheckingRemote", "UpdateAvailable" >>, << "UpdateAvailable", "Downloading" >>,
   << "Downloading", "Swapping" >>, << "Swapping", "Restarting" >>,
   << "Swapping", "RollbackFailed" >>}
  \cup {<< st, "Ended" >> : st \in {"Idle", "CheckingRemote", "UpdateAvailable",
                                    "Downloading", "Swapping", "Restarting"}}

\* C19 (Self-update state machine): one run of check() moves only along
\* Idle -> CheckingRemote -> (UpToDate | UpdateAvailable) -> Downloading ->
\* Swapping -> Restarting; the state with no executable at the original path
\* and a backup present is entered only from Swapping, after the second
\* rename and the restoring rename have both failed, and once it is entered
\* no further update step is taken.
C19_StateMachine ==
  [][/\ UState(upd') # UState(upd) => << UState(upd), UState(upd') >> \in UMoves
     /\ (UState(upd') = "RollbackFailed" /\ UState(upd) # "RollbackFailed")
          => /\ upd.pc = "restore"
             /\ {"rename2", "restore"} \subseteq upd'.failed
     /\ UState(upd) = "RollbackFailed"
          => /\ UState(upd') = "RollbackFailed"
             /\ upd'.pc \in {"returned", "init"}
             /\ << upd'.exec, upd'.old, upd'.new >> = << upd.exec, upd.old, upd.new >>]_vars

C19_Witness ==
  /\ UState(upd) = "RollbackFailed"
  /\ upd.failed = {"rename2", "restore"}
  /\ upd.old = "prev"
  /\ upd.pc = "init"
  /\ phase = "completed"

\* The remote tag is a version above the running one: the numbers compared
\* in order, a release above its own prereleases.
Newer(tag) ==
  \/ 100 * parse(tag).major + 10 * parse(tag).minor + parse(tag).patch
       > 100 * parse(APP_VERSION).major + 10 * parse(APP_VERSION).minor
         + parse(APP_VERSION).patch
  \/ /\ << parse(tag).major, parse(tag).minor, parse(tag).patch >>
          = << parse(APP_VERSION).major, parse(APP_VERSION).minor,
               parse(APP_VERSION).patch >>
     /\ parse(APP_VERSION).pre
     /\ ~parse(tag).pre

\* C20 (No downgrade): when the remote release version is equal to or lower
\* than the running version the update sequence ends in UpToDate with no
\* asset download, no temp file, no rename of the executable and no restart;
\* an update is performed only when the remote version is strictly greater.
C20_NoDowngrade ==
  /\ (upd.release.ok /\ parse(upd.release.tag_name).ok /\ ~Newer(upd.release.tag_name))
       => /\ UState(upd) = "UpToDate"
          /\ upd.pc \in {"returned", "init"}
          /\ upd.new = "none"
          /\ upd.exec = "prev"
          /\ upd.old \in {"none", "stale"}
          /\ upd.failed \subseteq {"removeOld"}
  /\ (\/ UState(upd) \in {"UpdateAvailable", "Downloading", "Swapping", "Restarting"}
      \/ upd.new # "none"
      \/ upd.exec # "prev"
      \/ upd.old = "prev")
       => /\ upd.release.ok
          /\ parse(upd.release.tag_name).ok
          /\ Newer(upd.release.tag_name)

C20_Witness ==
  /\ upd.release.ok
  /\ upd.release.tag_name = << "1", ".", "0", ".", "0" >>
  /\ UState(upd) = "UpToDate"
  /\ upd.pc = "init"
  /\ phase = "completed"

\* C21 (Safe abort on first rename): if renaming the current executable to
\* the backup path fails, the temp file is deleted (its removal not failing
\* in turn), the update is aborted, the original executable is still at its
\* path with its content, and no backup file has been created.
C21_SafeAbort ==
  "rename1" \in upd.failed
    => /\ upd.pc \in {"returned", "init"}
       /\ upd.exec = "prev"
       /\ upd.old \in {"none", "stale"}
       /\ upd.old = "stale" => "removeOld" \in upd.failed
       /\ "removeTemp" \notin upd.failed => upd.new = "none"
       /\ "rename2" \notin upd.failed
       /\ ~upd.child.spawned

C21_Witness ==
  /\ upd.failed = {"rename1"}
  /\ upd.log = "rename1"
  /\ upd.new = "none"
  /\ upd.exec = "prev"
  /\ upd.old = "none"
  /\ upd.pc = "init"
  /\ phase = "completed"

\* C22 (Swap rollback): if the first rename succeeds and the rename of the
\* temp file to the original path fails, the backup is renamed back to the
\* original path; when that restoring rename succeeds, the original path
\* holds the previous executable and the backup path no longer exists.
C22_SwapRollback ==
  "rename2" \in upd.failed
    => /\ "rename1" \notin upd.failed
       /\ upd.pc \in {"restore", "returned", "init"}
       /\ upd.pc = "restore" => (upd.exec = "none" /\ upd.old = "prev")
       /\ (upd.pc # "restore" /\ "restore" \notin upd.failed)
            => /\ upd.exec = "prev"
               /\ upd.old = "none"
               /\ upd.log = "apply"

C22_Witness ==
  /\ upd.failed = {"rename2"}
  /\ upd.exec = "prev"
  /\ upd.old = "none"
  /\ upd.pc = "init"
  /\ phase = "completed"

\* C23 (RollbackFailed is surfaced distinctly): when the second rename and
\* the restoring rename both fail, the outcome is a distinct error state that
\* is not handled like the other update failures: it is not reduced to
\* continuing with the current binary, so manager.init() does not follow.
C23_RollbackSurfaced ==
  {"rename2", "restore"} \subseteq upd.failed
    => /\ upd.pc # "init"
       /\ phase = "idle"

\* The update failures other than a failed rollback and a failed spawn:
\* release request, version parsing, platform, asset, download (request,
\* temp file, stream, permissions), first rename, second rename rolled back.
DegradingFailure ==
  upd.log \in {"api", "parse", "platform", "asset", "download", "open", "stream",
               "chmod", "rename1", "removeTemp", "apply"}

\* C24 (Update failures degrade to continuing): for every update failure
\* other than RollbackFailed, check() returns normally, the original
\* executable is at its original path, and the reconciliation engine then
\* runs in the same process; reconciliation never starts before the update
\* sequence has ended.
C24_Degrade ==
  /\ DegradingFailure
       => /\ upd.pc \in {"returned", "init"}
          /\ upd.exec = "prev"
          /\ ~upd.child.spawned
          /\ upd.exit = 0
          /\ upd.pc = "returned" => ENABLED ManagerInit
          /\ (upd.pc = "init" /\ phase = "idle") => ENABLED SyncModsStart
  /\ (phase # "idle" \/ pass > 0) => upd.pc = "init"

C24_Witness ==
  /\ upd.log = "stream"
  /\ upd.exec = "prev"
  /\ upd.pc = "init"
  /\ phase = "completed"
  /\ report # << >>

\* C25 (No reconciliation in a replaced process): in every execution in
\* which the swap completes (the new binary has been renamed to the original
\* path) the current process never runs the reconciliation engine, also when
\* a step after the swap fails, such as spawning the new binary.
C25_NoEngineAfterSwap ==
  upd.exec \in {"asset", "empty"}
    => /\ upd.pc # "init"
       /\ phase = "idle"

\* C26 (Restart): after a fully successful swap the new binary at the
\* original path is spawned as a child with the original arguments, the
\* parent waits for the child to finish, and the parent then terminates with
\* exactly the child's exit code.
C26_Restart ==
  /\ upd.pc = "spawn"
       => /\ upd.exec \in {"asset", "empty"}
          /\ upd.new = "none"
          /\ upd.old = "prev"
          /\ ENABLED Spawn
  /\ upd.child.spawned
       => /\ upd.pc \in {"child", "exited"}
          /\ upd.child.bin = upd.exec
          /\ upd.child.bin \in {"asset", "empty"}
          /\ upd.child.args = upd.args
          /\ phase = "idle"
  /\ upd.pc = "child" => (upd.exit = 0 /\ ENABLED ChildExit)
  /\ upd.pc = "exited" => (upd.child.spawned /\ upd.exit = upd.child.code)

C26_Witness ==
  /\ upd.pc = "exited"
  /\ upd.child.bin = "asset"
  /\ upd.child.args = << "-y" >>
  /\ upd.child.code = 1
  /\ upd.exit = 1

\* C27 (Backup cleanup): at the start of every run, before the development
\* test and before any release fetch, the deletion of '<executable>.old' is
\* attempted; a missing backup and any other deletion failure are ignored,
\* so the cleanup never raises an error and never prevents the rest of the
\* update sequence or the reconciliation from running.
C27_BackupCleanup ==
  [][upd.pc = "check"
       => /\ upd.release = NoRelease
          /\ upd'.old = "none" \/ "removeOld" \in upd'.failed
          /\ upd'.log \in {"none", "dev"}
          /\ upd'.pc = IF upd.isDev THEN "returned" ELSE "release"
          /\ << upd'.exec, upd'.new, upd'.exit >> = << upd.exec, upd.new, upd.exit >>]_vars

C27_Witness ==
  /\ "removeOld" \in upd.failed
  /\ upd.old = "stale"
  /\ upd.log = "uptodate"
  /\ upd.pc = "init"
  /\ phase = "completed"

\* The OS/architecture pairs that have an asset.
SupportedPair ==
  << upd.os, upd.arch >> \in {<< "windows", "x86_64" >>, << "linux", "x86_64" >>,
                              << "darwin", "aarch64" >>}

\* performUpdate has been entered and has chosen or refused an asset.
PastSelection ==
  /\ upd.release.ok
  /\ parse(upd.release.tag_name).ok
  /\ Newer(upd.release.tag_name)
  /\ upd.pc # "update"

\* C28 (Unsupported platform): when the OS/architecture pair is not one of
\* windows/x86_64, linux/x86_64, darwin/aarch64, or the release has no asset
\* with the exact fixed name for the pair, the update ends in an error with
\* no download started, no temp file created and no rename of the
\* executable; no other asset is ever used as a fallback.
C28_UnsupportedPlatform ==
  /\ (PastSelection
      /\ (~SupportedPair \/ AssetName(upd.os, upd.arch) \notin upd.release.assets))
       => /\ upd.log = IF SupportedPair THEN "asset" ELSE "platform"
          /\ upd.pc \in {"returned", "init"}
          /\ upd.asset = ""
          /\ upd.new = "none"
          /\ upd.exec = "prev"
          /\ upd.old \in {"none", "stale"}
          /\ upd.failed \subseteq {"removeOld"}
  /\ upd.asset # ""
       => /\ SupportedPair
          /\ upd.asset = AssetName(upd.os, upd.arch)
          /\ upd.asset \in upd.release.assets
  /\ (upd.new # "none" \/ upd.exec # "prev" \/ upd.pc = "download") => upd.asset # ""

C28_Witness ==
  /\ << upd.os, upd.arch >> = << "linux", "x86_64" >>
  /\ upd.release.assets = {"mod-manager-windows-x64.exe", "mod-manager-linux-arm64"}
  /\ upd.log = "asset"
  /\ upd.new = "none"
  /\ upd.pc = "init"

----------------------------------------------------------------------------
(* Properties of the manifest loading.                                     *)

\* Nothing of the reconciliation has run: ./mods was not created, nothing was
\* listed, deleted or downloaded.
NoReconciliation ==
  /\ phase = "idle"
  /\ pass = 0
  /\ report = << >>
  /\ fs = fsStart
  /\ ~cfg.made
  /\ cfg.remote = NoRemote

\* C29 (Missing manifest): when the manifest file does not exist an example
\* manifest is written (the write not failing), the process exits with
\* status 0 and no part of the reconciliation runs; any other manifest load
\* error (unreadable file, invalid JSON) ends the process with a non-zero
\* status, again with no reconciliation.
C29_MissingManifest ==
  /\ (cfg.file = "missing" /\ cfg.pc # "init")
       => /\ cfg.pc = "exited"
          /\ cfg.example \/ cfg.log = "error"
          /\ cfg.example => exitCode = 0
          /\ NoReconciliation
  /\ (cfg.file \in {"unreadable", "invalid"} /\ cfg.pc # "init")
       => /\ cfg.pc = "exited"
          /\ exitCode # 0
          /\ ~cfg.example
          /\ NoReconciliation

C29_Witness ==
  /\ cfg.file = "missing"
  /\ cfg.example
  /\ cfg.pc = "exited"
  /\ exitCode = 0
  /\ ~cfg.dir

\* The request of the remote manifest failed, or its document has no list of
\* mods.
RemoteUnusable ==
  \/ cfg.remote.kind \in {"net", "http", "invalid"}
  \/ cfg.remote.kind = "doc" /\ cfg.remote.mods.kind # "list"

\* C30 (External manifest fallback): when fetching or parsing the remote
\* manifest fails (transport error, non-success status, invalid JSON, remote
\* document without a mods list) the configuration used for the pass is
\* exactly the local manifest, the failure is reported and the pass
\* proceeds; when the fetch succeeds the remote fields override the local
\* ones and the external-source pointer stays the local one.
C30_ExternalFallback ==
  cfg.remote.kind # "none"
    => /\ cfg.src = cfg.local.externalSrc
       /\ cfg.mods = "list"
       /\ cfg.pc = "exited" => ~cfg.dir
       /\ IF RemoteUnusable
          THEN /\ config = cfg.local.config
               /\ cfg.log \in {"external", "error"}
          ELSE /\ config.mods = cfg.remote.mods.list
               /\ config.modLoader = IF cfg.remote.modLoader = "absent"
                                     THEN cfg.local.config.modLoader
                                     ELSE cfg.remote.modLoader
               /\ config.gameVersion = IF cfg.remote.gameVersion = "absent"
                                       THEN cfg.local.config.gameVersion
                                       ELSE cfg.remote.gameVersion
               /\ config.prune = IF cfg.remote.prune = "absent"
                                 THEN cfg.local.config.prune
                                 ELSE cfg.remote.prune

----------------------------------------------------------------------------
(* Properties of the order of the steps and of what a pass leaves alone.   *)

\* C31 (Prune ordering): when prune is enabled the prune loop runs after all
\* manifest entries have been processed; no orphan is deleted before the
\* last entry's processing has ended.  Stated on every state of a run: when
\* the run has deleted an orphan, every entry of the manifest has been
\* processed.
C31_PruneOrdering ==
  pruned # {} => Len(report) = Len(config.mods)

\* The download of the asset failed: its request, the opening of the temp
\* file, the stream, or the permission change.
DownloadFailed == upd.failed \cap {"fetch", "open", "stream", "chmod"} # {}

\* A rename of the update sequence has been attempted.
RenameAttempted ==
  \/ upd.pc \in {"rename2", "restore", "spawn", "child", "exited"}
  \/ upd.failed \cap {"rename1", "rename2", "restore"} # {}
  \/ upd.old = "prev"
  \/ upd.exec # "prev"

\* C32 (Download before swap): the executable is renamed to the backup path
\* only after the asset stream has been written completely to the temp path
\* (a response without a body has no stream, and its temp file is empty); if
\* the download request fails or the stream fails midway, neither rename is
\* performed and the original executable stays at its original path
\* unchanged.
C32_DownloadBeforeSwap ==
  /\ upd.pc = "rename1" => (upd.new \in {"asset", "empty"} /\ ~DownloadFailed)
  /\ RenameAttempted
       => /\ ~DownloadFailed
          /\ "part" \notin {upd.new, upd.exec}
          /\ (upd.new = "none" /\ "removeTemp" \notin upd.failed /\ upd.log # "rename1")
               => upd.exec \in {"asset", "empty"}
  /\ DownloadFailed
       => /\ ~RenameAttempted
          /\ upd.exec = "prev"
          /\ upd.old \in {"none", "stale"}
          /\ upd.pc \in {"returned", "init"}
          /\ upd.log \in {"download", "open", "stream", "chmod"}

C32_Witness ==
  /\ upd.failed = {"stream"}
  /\ upd.new = "part"
  /\ upd.exec = "prev"
  /\ upd.old = "none"
  /\ upd.pc = "init"
  /\ phase = "completed"

\* C33 (Files installed in a pass survive that pass): the directory is listed
\* once, when syncMods begins, and a file the engine downloads and validates
\* for one entry during a pass is never deleted later in the same pass,
\* neither by the prune loop nor by the stale-variant removal of a later
\* entry, for every manifest and every initial directory.
C33_InstalledSurvive ==
  \A i \in 1..Len(report) :
    report[i].outcome = "install"
      => /\ Exists(fs, report[i].expected)
         /\ \A j \in (i + 1)..Len(report) : report[i].expected \notin report[j].removed

\* The expected file names of the manifest's entries, as this run resolves
\* them: the registry's filename, the entry's fileName, or the synthesized
\* name.
ExpectedFiles ==
  {ResolveEntry(config.mods[i]).fileName :
     i \in {k \in 1..Len(config.mods) : ResolveEntry(config.mods[k]).ok}}

\* C34 (Prune spares required files): the prune loop never deletes a file
\* whose name is the expected filename of some manifest entry, whatever the
\* relation between that filename and the entry's name.  Stated while the
\* registry is as the run found it.
C34_PruneSparesRequired ==
  versions = versionsSeen => pruned \cap ExpectedFiles = {}

\* The expected file names of the entries other than the i-th.
ExpectedOfOthers(i) ==
  {ResolveEntry(config.mods[j]).fileName :
     j \in {k \in 1..Len(config.mods) : k # i /\ ResolveEntry(config.mods[k]).ok}}

\* C35 (No cross-entry deletion): the stale-variant removal performed for
\* one manifest entry never deletes a file that is the expected filename of
\* a different manifest entry, also when one entry's normalized name is a
\* prefix of the other's, in either manifest order.  Stated while the
\* registry is as the run found it.
C35_NoCrossEntryDeletion ==
  versions = versionsSeen
    => \A i \in 1..Len(report) : report[i].removed \cap ExpectedOfOthers(i) = {}

\* C36 (Previous binary is never destroyed by an update): at every point of
\* performUpdate, until the process exits or the function returns, a file
\* with the previous executable's content is at the original path or at the
\* backup path; no step of the sequence deletes or overwrites that content.
C36_PreviousBinaryKept ==
  /\ "prev" \in {upd.exec, upd.old}
  /\ upd.exec # "prev" => upd.pc \in {"rename2", "restore", "spawn", "child", "exited",
                                      "returned", "init"}
  /\ upd.new # "prev"

C36_Witness ==
  /\ upd.pc = "exited"
  /\ upd.exec = "asset"
  /\ upd.old = "prev"
  /\ "removeOld" \in upd.failed

\* C37 (Failed resolution changes nothing for the entry): when resolving an
\* entry fails (search, version listing, version selection, CurseForge,
\* missing downloadUrl) the processing of that entry deletes no file,
\* creates no file and starts no download; the stale variants are removed
\* only after a successful resolution.
C37_FailedResolution ==
  (report # << >> /\ versions = versionsSeen)
    => /\ ~ResolveEntry(LastMod).ok
            => /\ Last.outcome = "error"
               /\ Last.step = "resolve"
               /\ fs = fsBefore
               /\ Last.removed = {}
               /\ ~Last.downloaded
               /\ ~Last.validated
       /\ (Last.removed # {} \/ Last.downloaded \/ fs # fsBefore) => ResolveEntry(LastMod).ok

C37_Witness ==
  /\ report # << >>
  /\ LastMod = cfOne
  /\ Last.step = "resolve"
  /\ cf1 \in currentMods
  /\ VariantOf(cf1, LastMod)
  /\ Exists(fs, cf1)
  /\ fs = fsBefore

\* The entries of the directory this run found that are no regular file or
\* whose name does not end in '.jar'.
NotManaged ==
  {f \in DOMAIN fsStart : fsStart[f] = DirEntry \/ ~EndsWith(f, DotJar)}

\* C38 (Only .jar files are managed): a directory entry that is not a
\* regular file or whose name does not end in '.jar' is never deleted,
\* renamed or overwritten by a sync pass, whether prune is enabled or not,
\* unless its name is the expected filename of a manifest entry.  Stated
\* while the registry is as the run found it.
C38_OnlyJarsManaged ==
  versions = versionsSeen
    => /\ \A f \in NotManaged \ ExpectedFiles : Exists(fs, f) /\ fs[f] = fsStart[f]
       /\ NotManaged \cap (currentMods \cup pruned) = {}
       /\ \A i \in 1..Len(report) : report[i].removed \cap NotManaged = {}

C38_Witness ==
  /\ phase = "completed"
  /\ PruneActive
  /\ pruned = {zjar}
  /\ \E i \in 1..Len(report) : report[i].removed = {so2}
  /\ Cardinality(NotManaged) = 2
  /\ \A f \in NotManaged : VariantOf(f, mSo) /\ Exists(fs, f)
  /\ Cardinality(DOMAIN fs) = 3

\* C39 (Prune deletion failure is fatal to the pass): when the deletion of an
\* orphan in the prune loop fails, syncMods stops at once, no manifest entry
\* is processed in that run and the process exits with a non-zero status;
\* whereas a failed deletion of a stale variant inside an entry's processing
\* is only logged, and the entry goes on to ensure its expected file.
C39_PruneFailureFatal ==
  /\ (pass >= 1 /\ Orphans(currentMods) \cap locked # {})
       => /\ phase = "failed"
          /\ exitCode # 0
          /\ report = << >>
          /\ idx = 0
          /\ ~ENABLED ProcessEntry
          /\ pruned \cap locked = {}
          /\ \A f \in Orphans(currentMods) \ pruned : Exists(fs, f)
  /\ (pass >= 1 /\ Orphans(currentMods) \cap locked = {}) => phase # "failed"
  /\ (report # << >> /\ Last.duplicates \cap locked # {})
       => /\ phase \in {"entries", "completed"}
          /\ exitCode = 0
          /\ Last.removed = Last.duplicates \ locked
          /\ \A f \in Last.duplicates \cap locked : Exists(fs, f) /\ fs[f] = fsBefore[f]
          /\ IF LastWasInstalled
             THEN Last.outcome = "keep"
             ELSE Last.downloaded
          /\ (Fetch(Last.url).kind = "ok" /\ IsJar(Fetch(Last.url).body))
               => (Last.outcome \in {"keep", "install"} /\ Exists(fs, Last.expected))

C39_Witness ==
  /\ phase = "failed"
  /\ exitCode = 1
  /\ report = << >>
  /\ pruned # {}
  /\ Orphans(currentMods) \cap locked # {}
  /\ \A f \in locked : Exists(fs, f)
  /\ Len(config.mods) = 2

\* C40 (No leftover temp file): whenever the update sequence ends without
\* restarting (download failure, first-rename failure, second-rename
\* failure with or without a successful rollback), no temp file
\* '<executable>.new' is left next to the executable when check() returns.
C40_NoLeftoverTemp ==
  upd.pc \in {"returned", "init"} => upd.new = "none"

====
